---- MODULE Spec2Model ----
(***************************************************************************)
(* Hybrid translation orchestration of the localize pipeline:              *)
(* HybridTranslator.translate / translate_batch (DeepL first, GPT-4        *)
(* fallback), QualityScorer.score and PlaceholderValidator.validate.       *)
(*                                                                         *)
(* A text is a sequence of one-character strings.  Scores are in points    *)
(* (0..100), except the weighted overall score, which is kept in           *)
(* hundredths of a point (round(overall, 2) * 100), so that 9200 stands    *)
(* for 92.0.  The target language and the UI context are passed through    *)
(* to the providers unchanged and do not influence any decision (the       *)
(* translator never passes required_glossary_terms), so they are left out. *)
(***************************************************************************)
EXTENDS Integers, Sequences, FiniteSets, TLC

\* ------------------------------------------------------------------------
\* Bounds of the model
\* ------------------------------------------------------------------------
MaxItems == 3

\* config.deepl_batch_size / config.openai_batch_size, scaled down so that
\* a batch of MaxItems strings spans more than one chunk
DeeplBatchSize == 2
OpenaiBatchSize == 2

\* ------------------------------------------------------------------------
\* Characters
\* ------------------------------------------------------------------------
Digits == {"0", "1", "2", "3", "4", "5", "6", "7", "8", "9"}
Whitespace == {" ", "\n", "\t"}
Letters == {"a", "b", "c", "d", "e", "f", "g", "h", "i", "j", "k", "l", "m",
            "n", "o", "p", "q", "r", "s", "t", "u", "v", "w", "x", "y", "z",
            "A", "B", "C", "D", "E", "F", "G", "H", "I", "J", "K", "L", "M",
            "N", "O", "P", "Q", "R", "S", "T", "U", "V", "W", "X", "Y", "Z"}

\* [-+0 #] of PLACEHOLDER_PATTERN
FlagChars == {"-", "+", "0", " ", "#"}
\* [diouxXeEfFgGaAcspn@] of PLACEHOLDER_PATTERN
ConversionChars == {"d", "i", "o", "u", "x", "X", "e", "E", "f", "F", "g", "G",
                    "a", "A", "c", "s", "p", "n", "@"}
\* (?:hh|h|ll|l|L|z|j|t) of PLACEHOLDER_PATTERN, in the order the regex tries them
LengthModifiers == << <<"h", "h">>, <<"h">>, <<"l", "l">>, <<"l">>, <<"L">>,
                      <<"z">>, <<"j">>, <<"t">> >>

\* ------------------------------------------------------------------------
\* Sequence helpers
\* ------------------------------------------------------------------------
Range(s) == {s[k] : k \in DOMAIN s}

\* s[from..] starts with the sequence p
StartsAt(s, from, p) ==
    /\ from + Len(p) - 1 <= Len(s)
    /\ \A k \in 1..Len(p) : s[from + k - 1] = p[k]

\* number of consecutive characters of class C starting at index from
RunLength(s, from, C) ==
    LET run[k \in from..(Len(s) + 1)] ==
            IF k > Len(s) \/ s[k] \notin C THEN 0 ELSE 1 + run[k + 1]
    IN  IF from > Len(s) THEN 0 ELSE run[from]

\* <<hi, hi-1, ..., lo>> (empty when hi < lo)
Descending(hi, lo) == [k \in 1..(hi - lo + 1) |-> hi - k + 1]

\* concatenation of ss[1], ss[2], ...
Flatten(ss) ==
    LET acc[k \in 0..Len(ss)] == IF k = 0 THEN <<>> ELSE acc[k - 1] \o ss[k]
    IN  acc[Len(ss)]

Count(s, x) == Cardinality({k \in DOMAIN s : s[k] = x})

\* ------------------------------------------------------------------------
\* PlaceholderValidator
\* ------------------------------------------------------------------------
\* Each *Ends operator lists, in the order the backtracking regex engine tries
\* them, the indices at which one part of PLACEHOLDER_PATTERN can stop when it
\* starts at index i.

\* (?P<positional>\d+\$)?
PositionalEnds(t, i) ==
    LET k == RunLength(t, i, Digits)
    IN  (IF k >= 1 /\ i + k <= Len(t) /\ t[i + k] = "$" THEN <<i + k + 1>> ELSE <<>>)
        \o <<i>>

\* [-+0 #]*
FlagEnds(t, i) == Descending(i + RunLength(t, i, FlagChars), i)

\* (?:\d+|\*)?
WidthEnds(t, i) ==
    Descending(i + RunLength(t, i, Digits), i + 1)
    \o (IF i <= Len(t) /\ t[i] = "*" THEN <<i + 1>> ELSE <<>>)
    \o <<i>>

\* (?:\.(?:\d+|\*))?
PrecisionEnds(t, i) ==
    (IF i <= Len(t) /\ t[i] = "."
        THEN Descending(i + 1 + RunLength(t, i + 1, Digits), i + 2)
             \o (IF i + 1 <= Len(t) /\ t[i + 1] = "*" THEN <<i + 2>> ELSE <<>>)
        ELSE <<>>)
    \o <<i>>

\* (?:hh|h|ll|l|L|z|j|t)?
LengthEnds(t, i) ==
    LET one(m) == IF StartsAt(t, i, m) THEN <<i + Len(m)>> ELSE <<>>
    IN  Flatten([k \in DOMAIN LengthModifiers |-> one(LengthModifiers[k])]) \o <<i>>

\* [diouxXeEfFgGaAcspn@]
ConversionEnds(t, i) ==
    IF i <= Len(t) /\ t[i] \in ConversionChars THEN <<i + 1>> ELSE <<>>

\* the first nonzero element of ends, or alt when there is none
FirstOr(ends, alt) ==
    LET hits == {k \in DOMAIN ends : ends[k] # 0}
    IN  IF hits # {} THEN ends[CHOOSE k \in hits : \A h \in hits : k <= h] ELSE alt

\* The engine tries the stops of one part in order and, for each, the rest of
\* the pattern; After*(t, ends) is the end of the first full match found this
\* way when the part can stop at the indices ends, or 0 when there is none.
AfterLength(t, ends) ==
    FirstOr([k \in DOMAIN ends |-> FirstOr(ConversionEnds(t, ends[k]), 0)], 0)

AfterPrecision(t, ends) ==
    FirstOr([k \in DOMAIN ends |-> AfterLength(t, LengthEnds(t, ends[k]))], 0)

AfterWidth(t, ends) ==
    FirstOr([k \in DOMAIN ends |-> AfterPrecision(t, PrecisionEnds(t, ends[k]))], 0)

AfterFlags(t, ends) ==
    FirstOr([k \in DOMAIN ends |-> AfterWidth(t, WidthEnds(t, ends[k]))], 0)

AfterPositional(t, ends) ==
    FirstOr([k \in DOMAIN ends |-> AfterFlags(t, FlagEnds(t, ends[k]))], 0)

\* PLACEHOLDER_PATTERN matched at index p (where t[p] = "%"): the index after
\* the match, or 0 when the pattern does not match there
MatchEnd(t, p) ==
    FirstOr(<<AfterPositional(t, PositionalEnds(t, p + 1))>>,
            IF p + 1 <= Len(t) /\ t[p + 1] = "%" THEN p + 2 ELSE 0)

\* one step of finditer at index p: e is the end of the match found at p
\* (0 for none), rest[q] the matches from index q on
ScanStep(t, p, e, rest) ==
    IF e # 0 THEN <<SubSeq(t, p, e - 1)>> \o rest[e] ELSE rest[p + 1]

\* _extract_placeholders: the non-overlapping matches, left to right
ExtractPlaceholders(t) ==
    LET scan[p \in 1..(Len(t) + 1)] ==
            IF p > Len(t) THEN <<>>
            ELSE ScanStep(t, p, IF t[p] = "%" THEN MatchEnd(t, p) ELSE 0, scan)
    IN  scan[1]

PlaceholderIssue(error_type, severity) ==
    [error_type |-> error_type, severity |-> severity]

IsPositional(p) == "$" \in Range(p)

\* sorted(a) == sorted(b): the same placeholders with the same multiplicities
SameMultiset(a, b) ==
    /\ Len(a) = Len(b)
    /\ \A x \in Range(a) \cup Range(b) : Count(a, x) = Count(b, x)

\* the count_mismatch, missing and extra issues of validate, for the
\* placeholder lists of the source and of the translation
CriticalIssues(source_placeholders, trans_placeholders) ==
    (IF Len(source_placeholders) # Len(trans_placeholders)
        THEN <<PlaceholderIssue("count_mismatch", "critical")>> ELSE <<>>)
    \o [k \in 1..Cardinality(Range(source_placeholders) \ Range(trans_placeholders))
            |-> PlaceholderIssue("missing", "critical")]
    \o [k \in 1..Cardinality(Range(trans_placeholders) \ Range(source_placeholders))
            |-> PlaceholderIssue("extra", "critical")]

\* the order check made on all placeholders, the positional ones included
NonPositionalUnfiltered(placeholders) == placeholders

NonPositional(placeholders) == SelectSeq(placeholders, LAMBDA p : ~IsPositional(p))

\* the order check of validate, made only if no issue was found before
OrderIssues(found, source_non_positional, trans_non_positional) ==
    IF /\ found = <<>>
       /\ source_non_positional # trans_non_positional
       /\ SameMultiset(source_non_positional, trans_non_positional)
    THEN <<PlaceholderIssue("order_changed", "warning")>> ELSE <<>>

\* is_valid = not any(issue.severity == "critical" for issue in issues)
Verdict(issues) ==
    [is_valid |-> \A k \in DOMAIN issues : issues[k].severity # "critical",
     issues |-> issues]

WithOrderIssues(found, source_placeholders, trans_placeholders) ==
    Verdict(found \o OrderIssues(found, NonPositional(source_placeholders),
                                 NonPositional(trans_placeholders)))

\* validate, on the extracted placeholder lists
ValidatePlaceholders(source_placeholders, trans_placeholders) ==
    WithOrderIssues(CriticalIssues(source_placeholders, trans_placeholders),
                    source_placeholders, trans_placeholders)

\* validate(source, translation) -> (is_valid, issues)
Validate(source, translation) ==
    ValidatePlaceholders(ExtractPlaceholders(source), ExtractPlaceholders(translation))

\* ------------------------------------------------------------------------
\* QualityScorer
\* ------------------------------------------------------------------------
Max(a, b) == IF a >= b THEN a ELSE b
Min(a, b) == IF a <= b THEN a ELSE b

IssueTypes(issues) == [k \in DOMAIN issues |-> issues[k].error_type]
WarningCount(issues) == Cardinality({k \in DOMAIN issues : issues[k].severity = "warning"})

\* _score_placeholders, given what validate returned
PlaceholderScore(v) ==
    IF v.is_valid /\ v.issues = <<>> THEN [score |-> 100, issues |-> <<>>]
    ELSE IF \E k \in DOMAIN v.issues : v.issues[k].severity = "critical"
         THEN [score |-> 0, issues |-> IssueTypes(v.issues)]
    ELSE [score |-> Max(0, 100 - WarningCount(v.issues) * 20),
          issues |-> IssueTypes(v.issues)]

\* _score_placeholders -> (score, issues)
ScorePlaceholders(source, translation) == PlaceholderScore(Validate(source, translation))

\* _score_glossary with required_terms = None, which is how both translate
\* and translate_batch call score
ScoreGlossary(source, translation) == [score |-> 100, issues |-> <<>>]

\* _score_length with max_ratio = 1.5: the ratio len(translation)/len(source)
\* is compared with 1.5, 1.875 and 2.25, here cross-multiplied
ScoreLength(source, translation) ==
    IF source = <<>> \/ translation = <<>> THEN [score |-> 100, issues |-> <<>>]
    ELSE IF 2 * Len(translation) <= 3 * Len(source)
         THEN [score |-> 100, issues |-> <<>>]
    ELSE IF 8 * Len(translation) <= 15 * Len(source)
         THEN [score |-> 80, issues |-> <<"longer">>]
    ELSE IF 4 * Len(translation) <= 9 * Len(source)
         THEN [score |-> 60, issues |-> <<"significantly_longer">>]
    ELSE [score |-> 40, issues |-> <<"too_long">>]

StartsWithSpace(t) == t # <<>> /\ t[1] = " "
EndsWithSpace(t) == t # <<>> /\ t[Len(t)] = " "
HasDoubleSpace(t) == \E k \in 1..(Len(t) - 1) : t[k] = " " /\ t[k + 1] = " "

FormatScore(newline, leading, trailing, double) ==
    [score |-> Max(0, 100 - (IF newline THEN 20 ELSE 0) - (IF leading THEN 10 ELSE 0)
                          - (IF trailing THEN 10 ELSE 0) - (IF double THEN 5 ELSE 0)),
     issues |-> (IF newline THEN <<"newline_count">> ELSE <<>>)
                \o (IF leading THEN <<"leading_whitespace">> ELSE <<>>)
                \o (IF trailing THEN <<"trailing_whitespace">> ELSE <<>>)
                \o (IF double THEN <<"double_spaces">> ELSE <<>>)]

\* _score_format
ScoreFormat(source, translation) ==
    FormatScore(Count(source, "\n") # Count(translation, "\n"),
                StartsWithSpace(source) # StartsWithSpace(translation),
                EndsWithSpace(source) # EndsWithSpace(translation),
                ~HasDoubleSpace(source) /\ HasDoubleSpace(translation))

\* the weighted overall score, in hundredths of a point
Overall(placeholder_score, glossary_score, length_score, format_score) ==
    placeholder_score * 40 + glossary_score * 25 + length_score * 20 + format_score * 15

\* the category rule without the placeholder override
CategoryByOverall(placeholder_score, overall) ==
    IF overall >= 9500 THEN "green"
    ELSE IF overall >= 8000 THEN "yellow"
    ELSE "red"

\* the category rule of score (overall in hundredths)
Category(placeholder_score, overall) ==
    IF placeholder_score < 100 THEN "red"
    ELSE IF overall >= 9500 THEN "green"
    ELSE IF overall >= 8000 THEN "yellow"
    ELSE "red"

QualityScore(overall, placeholder_score, glossary_score, length_score, format_score, category, issues) ==
    [overall |-> overall, placeholder_score |-> placeholder_score,
     glossary_score |-> glossary_score, length_score |-> length_score,
     format_score |-> format_score, category |-> category, issues |-> issues]

\* the category and the returned QualityScore, from the weighted sum
Categorized(overall, ph, gl, ln, fm) ==
    QualityScore(overall, ph.score, gl.score, ln.score, fm.score,
                 Category(ph.score, overall),
                 ph.issues \o gl.issues \o ln.issues \o fm.issues)

\* score, from the four (score, issues) pairs
Combined(ph, gl, ln, fm) ==
    Categorized(Overall(ph.score, gl.score, ln.score, fm.score), ph, gl, ln, fm)

\* QualityScorer.score(source, translation, target_lang)
Score(source, translation) ==
    Combined(ScorePlaceholders(source, translation), ScoreGlossary(source, translation),
             ScoreLength(source, translation), ScoreFormat(source, translation))

\* ------------------------------------------------------------------------
\* HybridTranslator._is_non_translatable
\* ------------------------------------------------------------------------
\* str.strip()
Strip(t) ==
    LET lead == RunLength(t, 1, Whitespace)
        back[k \in 0..Len(t)] ==
            IF k = 0 \/ t[k] \notin Whitespace THEN k ELSE back[k - 1]
    IN  IF lead = Len(t) THEN <<>> ELSE SubSeq(t, lead + 1, back[Len(t)])

Chars(str) == CASE str = "http://" -> <<"h", "t", "t", "p", ":", "/", "/">>
                [] str = "https://" -> <<"h", "t", "t", "p", "s", ":", "/", "/">>
                [] str = "www." -> <<"w", "w", "w", ".">>

\* [%@dlfs\d$\s\-/] of the placeholder-only pattern
PlaceholderOnlyChars ==
    {"%", "@", "d", "l", "f", "s", "$", "-", "/"} \cup Digits \cup Whitespace

\* stripped.replace(".", "").replace(",", "").replace("%", "").isdigit()
IsNumber(stripped, reduced) == reduced # <<>> /\ Range(reduced) \subseteq Digits

\* the clauses of _is_non_translatable, on the stripped text
IsNonTranslatableStripped(stripped) ==
    \/ stripped = <<>>
    \/ Len(stripped) = 1 /\ stripped[1] \notin Letters
    \/ IsNumber(stripped, SelectSeq(stripped, LAMBDA c : c \notin {".", ",", "%"}))
    \/ stripped[1] = "." /\ Len(stripped) <= 5
    \/ \E prefix \in {"http://", "https://", "www."} : StartsAt(stripped, 1, Chars(prefix))
    \/ "@" \in Range(stripped) /\ "." \in Range(stripped) /\ " " \notin Range(stripped)
    \/ Range(stripped) \subseteq PlaceholderOnlyChars

IsNonTranslatable(text) == IsNonTranslatableStripped(Strip(text))

\* ------------------------------------------------------------------------
\* Inputs and provider answers
\* ------------------------------------------------------------------------
SrcNumber == <<"4", "2">>                              \* "42", non-translatable
SrcText == <<"a", "%", "@", "%", "d">>                 \* "a%@%d"
SrcEmpty == <<>>                                       \* ""
SrcBlank == <<" ">>                                    \* " "

TrGood == <<"b", "%", "@", "%", "d">>                  \* both placeholders, in order
TrMissing == <<"b", "%", "@">>                         \* drops %d
TrReordered == <<"b", "%", "d", "%", "@">>             \* non-positional order changed
TrLong == <<"b", "b", "b", "b", "b", "b", "%", "@", "%", "d">>   \* twice the source length
TrEmpty == <<>>                                        \* ""

\* sources of the items of a batch, and of a single translate call
BatchSources == {SrcNumber, SrcText}
SingleSources == {SrcNumber, SrcText, SrcEmpty, SrcBlank}

\* texts the fast-MT provider answers with, per item (an empty string included)
DeeplTexts == {TrGood, TrMissing, TrLong, TrEmpty}
\* texts the LLM provider answers with, per item (an empty string included)
OpenaiTexts == {TrGood, TrReordered, TrEmpty}

\* values of the quality threshold (config.quality_threshold, --threshold)
Thresholds == {80, 95}

\* ------------------------------------------------------------------------
\* Python dicts: a sequence of records with a key field, in insertion order
\* ------------------------------------------------------------------------
DictKeys(d) == [k \in DOMAIN d |-> d[k].key]
HasKey(d, key) == \E k \in DOMAIN d : d[k].key = key
Get(d, key) == d[CHOOSE k \in DOMAIN d : d[k].key = key]
\* d[rec.key] = rec: an existing key keeps its position
Put(d, rec) ==
    IF HasKey(d, rec.key)
    THEN [k \in DOMAIN d |-> IF d[k].key = rec.key THEN rec ELSE d[k]]
    ELSE Append(d, rec)
PutAll(d, recs) ==
    LET acc[k \in 0..Len(recs)] == IF k = 0 THEN d ELSE Put(acc[k - 1], recs[k])
    IN  acc[Len(recs)]

\* zip(a, b, ...) stops at the shortest argument
ZipLen(a, b) == Min(Len(a), Len(b))

\* ------------------------------------------------------------------------
\* Results and statistics
\* ------------------------------------------------------------------------
NoError == "None"

TranslationResult(key, source, translation, quality_score, provider, fallback_used, error) ==
    [key |-> key, source |-> source, translation |-> translation,
     quality_score |-> quality_score, provider |-> provider,
     fallback_used |-> fallback_used, error |-> error]

\* a skip result that echoes the stripped source
CreateSkipResultStripped(key, source) ==
    TranslationResult(key, source, Strip(source),
                      QualityScore(10000, 100, 100, 100, 100, "green", <<>>),
                      "skip", FALSE, NoError)

\* _create_skip_result, and the two skip returns of translate
CreateSkipResult(key, source) ==
    TranslationResult(key, source, source,
                      QualityScore(10000, 100, 100, 100, 100, "green", <<>>),
                      "skip", FALSE, NoError)

\* _create_error_result
CreateErrorResult(key, source, error) ==
    TranslationResult(key, source, <<>>,
                      QualityScore(0, 0, 0, 0, 0, "red", <<error>>),
                      "error", FALSE, error)

\* the except branch of translate
TranslateErrorResult(key, source, prov, fallback, error) ==
    TranslationResult(key, source, <<>>,
                      QualityScore(0, 0, 0, 0, 0, "red", <<error>>),
                      prov, fallback, error)

\* TranslationStats(total=n)
NewStats(n) ==
    [total |-> n, deepl_count |-> 0, gpt4_count |-> 0, failed_count |-> 0,
     green_count |-> 0, yellow_count |-> 0, red_count |-> 0]

\* _update_quality_stats
UpdateQualityStats(st, quality) ==
    IF quality.category = "green" THEN [st EXCEPT !.green_count = @ + 1]
    ELSE IF quality.category = "yellow" THEN [st EXCEPT !.yellow_count = @ + 1]
    ELSE [st EXCEPT !.red_count = @ + 1]

\* the source is skipped without any provider call
IsSkipped(source) == source = <<>> \/ Strip(source) = <<>> \/ IsNonTranslatable(source)

\* quality.overall < self.quality_threshold or quality.category == "red"
NeedsFallback(quality, threshold) ==
    quality.overall < threshold * 100 \/ quality.category = "red"

\* the provider calls that sit inside a try block whose except clause
\* catches Exception
CaughtSites == {"translate", "deepl_batch", "openai_batch", "openai_retry"}

\* the individual retries of _batch_translate_openai without their own try
IsCaughtExceptRetry(site) == site \in CaughtSites \ {"openai_retry"}

IsCaught(site) == site \in CaughtSites

\* ------------------------------------------------------------------------
\* OpenAIClient.translate_batch: the answer is rebuilt by ID
\* ------------------------------------------------------------------------
\* the "id" of an item of the response is a JSON value: a string of digits
\* or a number
JsonString(n) == [type |-> "string", digits |-> n]
JsonNumber(n) == [type |-> "number", digits |-> n]

\* str(i)
Str(n) == JsonString(n)

\* parsed is the "translations" array of the response: items with an id and
\* a translation ("" when the item has none); result_map keeps the last item
\* of each id, and the lookup is by str(i)
OpenAIClientTranslateBatch(texts, parsed) ==
    LET last(id) == CHOOSE k \in DOMAIN parsed :
                        /\ parsed[k].id = id
                        /\ \A j \in DOMAIN parsed : parsed[j].id = id => j <= k
    IN  [n \in 1..Len(texts) |->
            IF \E k \in DOMAIN parsed : parsed[k].id = Str(n - 1)
            THEN parsed[last(Str(n - 1))].translation ELSE <<>>]

\* the responses considered for a request of m texts: any subset of the
\* items, each translated with one of OpenaiTexts, listed in request order
\* or reversed
LlmBatchReplies(m) ==
    LET items(f, present, order) ==
            SelectSeq([k \in 1..m |-> [id |-> Str(order[k]), translation |-> f[order[k]]]],
                      LAMBDA it : it.id.digits \in present)
    IN  UNION {{items(f, present, [k \in 1..m |-> k - 1]),
                items(f, present, [k \in 1..m |-> m - k])} :
               <<f, present>> \in [0..(m - 1) -> OpenaiTexts] \X SUBSET (0..(m - 1))}

\* ------------------------------------------------------------------------
\* The steps of translate_batch
\* ------------------------------------------------------------------------
\* Step 1: skip results for the non-translatable items, the rest is translatable
SkipResults(strings) ==
    LET skipped == SelectSeq(strings, LAMBDA e : IsSkipped(e.source))
    IN  [k \in DOMAIN skipped |-> CreateSkipResult(skipped[k].key, skipped[k].source)]

Translatable(strings) == SelectSeq(strings, LAMBDA e : ~IsSkipped(e.source))

\* chunks that start over at the first item each time
ChunkFromFirst(items, i, batch_size) == SubSeq(items, 1, Min(i + batch_size, Len(items)))

\* the items of one chunk: keys[i:i + batch_size], texts[i:i + batch_size]
Chunk(items, i, batch_size) == SubSeq(items, i + 1, Min(i + batch_size, Len(items)))

\* _batch_translate_deepl, try branch: zip(batch_keys, batch_texts, deepl_results)
DeeplChunkResults(batch, reply) ==
    [k \in 1..ZipLen(batch, reply) |->
        [key |-> batch[k].key, source |-> batch[k].source, translation |-> reply[k]]]

\* a failed chunk that is dropped instead of degraded
DeeplChunkLost(batch) == <<>>

\* _batch_translate_deepl, except branch: every item of the chunk gets ""
DeeplChunkFailed(batch) ==
    [k \in DOMAIN batch |->
        [key |-> batch[k].key, source |-> batch[k].source, translation |-> <<>>]]

\* Step 3, one item, counted for deepl also when it goes to the fallback set
ScoreOneCountingAll(acc, item, threshold, quality) ==
        IF item.translation = <<>> \/ NeedsFallback(quality, threshold)
        THEN [acc EXCEPT !.fallback_needed =
                             Put(@, [key |-> item.key, source |-> item.source]),
                         !.stats = [@ EXCEPT !.deepl_count = @ + 1]]
        ELSE [acc EXCEPT
                 !.results = Put(@, TranslationResult(item.key, item.source,
                                        item.translation, quality, "deepl", FALSE, NoError)),
                 !.stats = UpdateQualityStats(
                               [@ EXCEPT !.deepl_count = @ + 1], quality)]

\* Step 3, one item: an empty or low-quality translation goes to the fallback
\* set, anything else becomes a deepl result
ScoreOneWith(acc, item, threshold, quality) ==
        IF item.translation = <<>> \/ NeedsFallback(quality, threshold)
        THEN [acc EXCEPT !.fallback_needed =
                  Put(@, [key |-> item.key, source |-> item.source])]
        ELSE [acc EXCEPT
                 !.results = Put(@, TranslationResult(item.key, item.source,
                                        item.translation, quality, "deepl", FALSE, NoError)),
                 !.stats = UpdateQualityStats(
                               [@ EXCEPT !.deepl_count = @ + 1], quality)]

ScoreOne(acc, item, threshold) ==
    ScoreOneWith(acc, item, threshold, Score(item.source, item.translation))

\* Step 3: the loop over deepl_results
ScoreDeeplResults(res, st, dres, threshold) ==
    LET acc[k \in 0..Len(dres)] ==
            IF k = 0 THEN [results |-> res, stats |-> st, fallback_needed |-> <<>>]
            ELSE ScoreOne(acc[k - 1], dres[k], threshold)
    IN  acc[Len(dres)]

\* Step 4, one item of openai_results, with the failure left out of the count
CollectOneUncounted(acc, item, quality) ==
    IF item.translation # <<>>
    THEN [results |-> Put(acc.results, TranslationResult(item.key, item.source,
                              item.translation, quality, "gpt4", TRUE, NoError)),
          stats |-> UpdateQualityStats(
                        [acc.stats EXCEPT !.gpt4_count = @ + 1], quality)]
    ELSE [results |-> Put(acc.results,
                          CreateErrorResult(item.key, item.source, "Translation failed")),
          stats |-> acc.stats]

\* Step 4, one item of openai_results
CollectOneWith(acc, item, quality) ==
    IF item.translation # <<>>
    THEN [results |-> Put(acc.results, TranslationResult(item.key, item.source,
                              item.translation, quality, "gpt4", TRUE, NoError)),
          stats |-> UpdateQualityStats(
                        [acc.stats EXCEPT !.gpt4_count = @ + 1], quality)]
    ELSE [results |-> Put(acc.results,
                          CreateErrorResult(item.key, item.source, "Translation failed")),
          stats |-> [acc.stats EXCEPT !.failed_count = @ + 1]]

CollectOne(acc, item) == CollectOneWith(acc, item, Score(item.source, item.translation))

\* Step 4: the loop over openai_results
CollectOpenaiResults(res, st, ores) ==
    LET acc[k \in 0..Len(ores)] ==
            IF k = 0 THEN [results |-> res, stats |-> st]
            ELSE CollectOne(acc[k - 1], ores[k])
    IN  acc[Len(ores)]

\* translate_batch without Step 5
RemainingErrorsSkipped(res, st, items) == [results |-> res, stats |-> st]

\* Step 5: translatable keys that still have no result
RemainingErrors(res, st, items) ==
    LET acc[k \in 0..Len(items)] ==
            IF k = 0 THEN [results |-> res, stats |-> st]
            ELSE IF HasKey(acc[k - 1].results, items[k].key) THEN acc[k - 1]
            ELSE [results |-> Put(acc[k - 1].results,
                                  CreateErrorResult(items[k].key, items[k].source,
                                                    "Translation failed")),
                  stats |-> [acc[k - 1].stats EXCEPT !.failed_count = @ + 1]]
    IN  acc[Len(items)]

\* the results in the order they were inserted into the dict
OrderedResultsByInsertion(strings, res) == res

\* [results[key] for key in strings.keys()]
OrderedResults(strings, res) == [k \in DOMAIN strings |-> Get(res, strings[k].key)]

\* list(results.values()) of the early return
ResultValues(res) == res

\* completed = min(i + batch_size, len(texts)) as reported after a DeepL chunk
DeeplProgress(i, batch_size, n_texts) == Min(i + batch_size, n_texts)

\* len(strings) - len(keys) + completed as reported after a GPT-4 chunk;
\* strings is the dict the keys were taken from
OpenaiProgress(i, batch_size, n_strings, n_keys, n_texts) ==
    n_strings - n_keys + Min(i + batch_size, n_texts)

\* ------------------------------------------------------------------------
\* State
\* ------------------------------------------------------------------------
VARIABLES
    quality_threshold,  \* self.quality_threshold
    call,               \* the entry point invoked and its arguments
    pc,                 \* position in the entry point
    results,            \* translate_batch: results
    stats,              \* translate_batch: stats
    translatable,       \* translate_batch: translatable
    deepl_results,      \* translate_batch: deepl_results
    fallback_needed,    \* translate_batch: fallback_needed
    openai_results,     \* translate_batch: openai_results
    i,                  \* loop index of the chunk loops
    provider,           \* translate: provider
    fallback_used,      \* translate: fallback_used
    progress,           \* the (current, total) pairs passed to progress_callback
    requests,           \* the provider calls made so far
    outcome,            \* how the entry point ended
    fcall,              \* validate / score / OpenAIClient.translate_batch: the call
    fresult,            \* validate / score / OpenAIClient.translate_batch: what it returned
    review_call,        \* LLMReviewer: the entry point invoked and its arguments
    review_results,     \* review_batch: results
    review_requests,    \* LLMReviewer: the chat completion calls made so far
    review_outcome,     \* LLMReviewer: how the entry point ended
    invocations,        \* concurrent translate_batch: the frame of each invocation
    cells,              \* concurrent translate_batch: the results and stats objects
    alone,              \* each invocation replayed on its own with the same answers
    xcstrings,          \* translate_file: the parsed file, key -> language -> Localization
    service,            \* translate_file: position, language index and the batch in progress
    queues,             \* JobManager.queues
    jobs,               \* JobManager.jobs and the position of each job's background task
    clients             \* the open and ended SSE streams

translatorVars ==
    <<quality_threshold, call, pc, results, stats, translatable, deepl_results,
      fallback_needed, openai_results, i, provider, fallback_used, progress,
      requests, outcome>>
pureVars == <<fcall, fresult>>
reviewVars == <<review_call, review_results, review_requests, review_outcome>>
concurrentVars == <<invocations, cells, alone>>
serviceVars == <<xcstrings, service>>
streamVars == <<queues, jobs, clients>>

vars == <<translatorVars, pureVars, reviewVars, concurrentVars, serviceVars, streamVars>>

batchVars == <<results, stats, translatable, deepl_results, fallback_needed,
               openai_results, i, progress>>

Entry(k, s) == [key |-> k, source |-> s]

\* input mappings of translate_batch: up to MaxItems entries with distinct keys
BatchInputs ==
    UNION {{[k \in 1..n |-> Entry(k, f[k])] : f \in [1..n -> BatchSources]} :
           n \in 0..MaxItems}

Calls ==
    {[op |-> "translate", strings |-> <<Entry(1, s)>>, force_gpt4 |-> f] :
        s \in SingleSources, f \in BOOLEAN}
    \cup {[op |-> "translate_batch", strings |-> ss, force_gpt4 |-> FALSE] :
            ss \in BatchInputs}

Request(prov, kind, keys, raised, reply) ==
    [provider |-> prov, kind |-> kind, keys |-> keys, raised |-> raised, reply |-> reply]

Returned(res, st) == [kind |-> "returned", results |-> res, stats |-> st]
Raised == [kind |-> "raised", results |-> <<>>, stats |-> NewStats(0)]
Running == [kind |-> "running", results |-> <<>>, stats |-> NewStats(0)]

\* the variables of the entry points that a specification does not exercise
PureIdle == fcall = <<>> /\ fresult = <<>>
ReviewIdle ==
    /\ review_call = <<>>
    /\ review_results = <<>>
    /\ review_requests = <<>>
    /\ review_outcome = <<>>
ConcurrentIdle == invocations = <<>> /\ cells = <<>> /\ alone = <<>>
ServiceIdle == xcstrings = <<>> /\ service = <<>>
StreamIdle == queues = <<>> /\ jobs = <<>> /\ clients = <<>>
TranslatorIdle ==
    /\ call = <<>> /\ pc = "idle" /\ quality_threshold = 0
    /\ results = <<>> /\ stats = <<>> /\ translatable = <<>> /\ deepl_results = <<>>
    /\ fallback_needed = <<>> /\ openai_results = <<>> /\ i = 0
    /\ provider = "" /\ fallback_used = FALSE /\ progress = <<>>
    /\ requests = <<>> /\ outcome = <<>>

Init ==
    /\ PureIdle /\ ReviewIdle /\ ConcurrentIdle /\ ServiceIdle /\ StreamIdle
    /\ quality_threshold \in Thresholds
    /\ call \in Calls
    /\ pc = "start"
    /\ results = <<>>
    /\ stats = NewStats(0)
    /\ translatable = <<>>
    /\ deepl_results = <<>>
    /\ fallback_needed = <<>>
    /\ openai_results = <<>>
    /\ i = 0
    /\ provider = "deepl"
    /\ fallback_used = FALSE
    /\ progress = <<>>
    /\ requests = <<>>
    /\ outcome = Running

Callback(current, total) == [current |-> current, total |-> total]

\* an exception leaves the entry point
Escape ==
    /\ pc' = "done"
    /\ outcome' = Raised

\* what one provider call does: it raises, or it answers with a text
Answers(texts) ==
    {[raised |-> TRUE, text |-> <<>>]} \cup {[raised |-> FALSE, text |-> t] : t \in texts}

\* the answers of DeepLClient.translate_batch to m texts: zip(results, texts)
\* never yields more than m entries, a short answer yields fewer
DeeplReplies(m) == UNION {[1..n -> DeeplTexts] : n \in 0..m}

\* ------------------------------------------------------------------------
\* translate_batch
\* ------------------------------------------------------------------------
\* Step 1, the early return, and the first progress notification
BatchStart ==
    /\ pc = "start"
    /\ call.op = "translate_batch"
    /\ results' = SkipResults(call.strings)
    /\ stats' = NewStats(Len(call.strings))
    /\ translatable' = Translatable(call.strings)
    /\ IF translatable' = <<>>
       THEN /\ pc' = "done"
            /\ outcome' = Returned(ResultValues(results'), stats')
            /\ progress' = progress
       ELSE /\ pc' = "deepl"
            /\ outcome' = outcome
            /\ progress' = Append(progress, Callback(0, Len(call.strings)))
    /\ UNCHANGED <<pureVars, reviewVars, concurrentVars, serviceVars, streamVars>>
    /\ UNCHANGED <<quality_threshold, call, deepl_results, fallback_needed,
                   openai_results, i, provider, fallback_used, requests>>

\* a loop of _batch_translate_deepl that ends after its first chunk
DeeplChunkDoneEarly(chunk_results) ==
    /\ deepl_results' = PutAll(deepl_results, chunk_results)
    /\ progress' = Append(progress,
                          Callback(DeeplProgress(i, DeeplBatchSize, Len(translatable)),
                                   Len(call.strings)))
    /\ i' = 0
    /\ pc' = "score"
    /\ outcome' = outcome

\* the end of one iteration of the loop of _batch_translate_deepl
DeeplChunkDone(chunk_results) ==
    /\ deepl_results' = PutAll(deepl_results, chunk_results)
    /\ progress' = Append(progress,
                          Callback(DeeplProgress(i, DeeplBatchSize, Len(translatable)),
                                   Len(call.strings)))
    /\ i' = IF i + DeeplBatchSize >= Len(translatable) THEN 0 ELSE i + DeeplBatchSize
    /\ pc' = IF i + DeeplBatchSize >= Len(translatable) THEN "score" ELSE "deepl"
    /\ outcome' = outcome

\* one chunk of _batch_translate_deepl, the DeepL call answers
DeeplChunkOk ==
    /\ pc = "deepl"
    /\ LET batch == Chunk(translatable, i, DeeplBatchSize)
       IN  \E reply \in DeeplReplies(Len(batch)) :
              /\ requests' = Append(requests,
                                 Request("deepl", "batch", DictKeys(batch), FALSE, reply))
              /\ DeeplChunkDone(DeeplChunkResults(batch, reply))
    /\ UNCHANGED <<pureVars, reviewVars, concurrentVars, serviceVars, streamVars>>
    /\ UNCHANGED <<quality_threshold, call, results, stats, translatable,
                   fallback_needed, openai_results, provider, fallback_used>>

\* one chunk of _batch_translate_deepl, the DeepL call raises
DeeplChunkRaise ==
    /\ pc = "deepl"
    /\ LET batch == Chunk(translatable, i, DeeplBatchSize)
       IN  /\ requests' = Append(requests,
                                 Request("deepl", "batch", DictKeys(batch), TRUE, <<>>))
           /\ IF IsCaught("deepl_batch")
              THEN DeeplChunkDone(DeeplChunkFailed(batch))
              ELSE Escape /\ UNCHANGED <<deepl_results, progress, i>>
    /\ UNCHANGED <<pureVars, reviewVars, concurrentVars, serviceVars, streamVars>>
    /\ UNCHANGED <<quality_threshold, call, results, stats, translatable,
                   fallback_needed, openai_results, provider, fallback_used>>

\* what translate_batch does with the outcome of the loop of Step 3
Scored(scored, total) ==
    /\ results' = scored.results
    /\ stats' = scored.stats
    /\ fallback_needed' = scored.fallback_needed
    /\ progress' = progress
           \o <<Callback(Len(deepl_results), total)>>
           \o (IF scored.fallback_needed # <<>>
               THEN <<Callback(Len(scored.results), total)>> ELSE <<>>)
    /\ pc' = IF scored.fallback_needed # <<>> THEN "openai" ELSE "finish"

\* Step 3 and the notification that opens Step 4
BatchScore ==
    /\ pc = "score"
    /\ Scored(ScoreDeeplResults(results, stats, deepl_results, quality_threshold),
              Len(call.strings))
    /\ UNCHANGED <<pureVars, reviewVars, concurrentVars, serviceVars, streamVars>>
    /\ UNCHANGED <<quality_threshold, call, translatable, deepl_results,
                   openai_results, i, provider, fallback_used, requests, outcome>>

\* the end of one iteration of the loop of _batch_translate_openai
OpenaiChunkDone(chunk_results) ==
    /\ openai_results' = PutAll(openai_results, chunk_results)
    /\ progress' = Append(progress,
                          Callback(OpenaiProgress(i, OpenaiBatchSize, Len(fallback_needed),
                                                  Len(fallback_needed), Len(fallback_needed)),
                                   Len(call.strings)))
    /\ i' = IF i + OpenaiBatchSize >= Len(fallback_needed) THEN 0 ELSE i + OpenaiBatchSize
    /\ pc' = IF i + OpenaiBatchSize >= Len(fallback_needed) THEN "finish" ELSE "openai"
    /\ outcome' = outcome

\* one chunk of _batch_translate_openai, the batch call answers
OpenaiChunkOk ==
    /\ pc = "openai"
    /\ LET batch == Chunk(fallback_needed, i, OpenaiBatchSize)
           texts == [k \in DOMAIN batch |-> batch[k].source]
       IN  \E parsed \in LlmBatchReplies(Len(batch)) :
              LET translations == OpenAIClientTranslateBatch(texts, parsed)
              IN  /\ requests' = Append(requests,
                          Request("openai", "batch", DictKeys(batch), FALSE, translations))
                  /\ OpenaiChunkDone(
                        [k \in 1..ZipLen(batch, translations) |->
                            [key |-> batch[k].key, source |-> batch[k].source,
                             translation |-> translations[k]]])
    /\ UNCHANGED <<pureVars, reviewVars, concurrentVars, serviceVars, streamVars>>
    /\ UNCHANGED <<quality_threshold, call, results, stats, translatable,
                   deepl_results, fallback_needed, provider, fallback_used>>

\* one chunk of _batch_translate_openai, the batch call raises and every
\* item of the chunk is translated on its own
OpenaiChunkRetry ==
    /\ pc = "openai"
    /\ LET batch == Chunk(fallback_needed, i, OpenaiBatchSize)
           failed == Request("openai", "batch", DictKeys(batch), TRUE, <<>>)
       IN  IF ~IsCaught("openai_batch")
           THEN /\ requests' = Append(requests, failed)
                /\ Escape
                /\ UNCHANGED <<openai_results, progress, i>>
           ELSE \E retry \in [DOMAIN batch -> Answers(OpenaiTexts)] :
                   LET single(k) == Request("openai", "single", <<batch[k].key>>,
                                            retry[k].raised,
                                            IF retry[k].raised THEN <<>>
                                            ELSE <<retry[k].text>>)
                       \* the first retry that raises uncaught ends the call
                       stop == IF IsCaught("openai_retry")
                                  \/ \A k \in DOMAIN batch : ~retry[k].raised
                               THEN Len(batch)
                               ELSE CHOOSE k \in DOMAIN batch :
                                       /\ retry[k].raised
                                       /\ \A j \in 1..(k - 1) : ~retry[j].raised
                   IN  /\ requests' = requests \o <<failed>>
                                          \o [k \in 1..stop |-> single(k)]
                       /\ IF IsCaught("openai_retry") \/ \A k \in DOMAIN batch : ~retry[k].raised
                          THEN OpenaiChunkDone(
                                  [k \in DOMAIN batch |->
                                      [key |-> batch[k].key, source |-> batch[k].source,
                                       translation |-> retry[k].text]])
                          ELSE Escape /\ UNCHANGED <<openai_results, progress, i>>
    /\ UNCHANGED <<pureVars, reviewVars, concurrentVars, serviceVars, streamVars>>
    /\ UNCHANGED <<quality_threshold, call, results, stats, translatable,
                   deepl_results, fallback_needed, provider, fallback_used>>

\* the return of translate_batch, with the results and stats after Step 5;
\* results[key] raises KeyError for a key without a result
Finished(final) ==
    /\ results' = final.results
    /\ stats' = final.stats
    /\ outcome' = IF \A k \in DOMAIN call.strings : HasKey(final.results, call.strings[k].key)
                  THEN Returned(OrderedResults(call.strings, final.results), final.stats)
                  ELSE Raised

\* Step 5 after Step 4
AfterCollect(collected) ==
    Finished(RemainingErrors(collected.results, collected.stats, translatable))

\* the loop of Step 4 over openai_results, Step 5 and the ordered return
BatchFinish ==
    /\ pc = "finish"
    /\ AfterCollect(IF fallback_needed # <<>>
                    THEN CollectOpenaiResults(results, stats, openai_results)
                    ELSE [results |-> results, stats |-> stats])
    /\ pc' = "done"
    /\ UNCHANGED <<pureVars, reviewVars, concurrentVars, serviceVars, streamVars>>
    /\ UNCHANGED <<quality_threshold, call, translatable, deepl_results, fallback_needed,
                   openai_results, i, provider, fallback_used, progress, requests>>

\* ------------------------------------------------------------------------
\* translate
\* ------------------------------------------------------------------------
\* str(e) of the exception a provider call raised
ProviderError == "provider error"

\* the two skip returns, or the start of the try block
TranslateStart ==
    /\ pc = "start"
    /\ call.op = "translate"
    /\ LET arg == call.strings[1]
       IN  IF IsSkipped(arg.source)
           THEN /\ pc' = "done"
                /\ outcome' = Returned(<<CreateSkipResult(arg.key, arg.source)>>, NewStats(0))
           ELSE /\ pc' = IF call.force_gpt4 THEN "openai_single" ELSE "deepl_single"
                /\ outcome' = outcome
    /\ provider' = "deepl"
    /\ fallback_used' = FALSE
    /\ UNCHANGED <<pureVars, reviewVars, concurrentVars, serviceVars, streamVars>>
    /\ UNCHANGED <<quality_threshold, call, requests, batchVars>>

\* translate after the DeepL answer was scored: fall back or return
DeeplScored(arg, translation, quality) ==
    IF NeedsFallback(quality, quality_threshold)
    THEN /\ fallback_used' = TRUE
         /\ pc' = "openai_single"
         /\ outcome' = outcome
    ELSE /\ pc' = "done"
         /\ outcome' = Returned(<<TranslationResult(arg.key, arg.source, translation,
                                      quality, provider, fallback_used, NoError)>>,
                                NewStats(0))
         /\ UNCHANGED fallback_used

\* self.deepl.translate and the scoring of its answer
TranslateDeepl ==
    /\ pc = "deepl_single"
    /\ LET arg == call.strings[1]
       IN  \E answer \in Answers(DeeplTexts) :
              /\ requests' = Append(requests,
                      Request("deepl", "single", <<arg.key>>, answer.raised,
                              IF answer.raised THEN <<>> ELSE <<answer.text>>))
              /\ IF answer.raised
                 THEN /\ IF IsCaught("translate")
                         THEN /\ pc' = "done"
                              /\ outcome' = Returned(
                                     <<TranslateErrorResult(arg.key, arg.source, provider,
                                                            fallback_used, ProviderError)>>,
                                     NewStats(0))
                         ELSE Escape
                      /\ UNCHANGED fallback_used
                 ELSE DeeplScored(arg, answer.text, Score(arg.source, answer.text))
    /\ UNCHANGED <<pureVars, reviewVars, concurrentVars, serviceVars, streamVars>>
    /\ UNCHANGED <<quality_threshold, call, provider, batchVars>>

\* self.openai.translate (fallback or force_gpt4) and the scoring of its answer
TranslateOpenai ==
    /\ pc = "openai_single"
    /\ LET arg == call.strings[1]
       IN  \E answer \in Answers(OpenaiTexts) :
              /\ requests' = Append(requests,
                      Request("openai", "single", <<arg.key>>, answer.raised,
                              IF answer.raised THEN <<>> ELSE <<answer.text>>))
              /\ IF answer.raised
                 THEN /\ IF IsCaught("translate")
                         THEN /\ pc' = "done"
                              /\ outcome' = Returned(
                                     <<TranslateErrorResult(arg.key, arg.source, provider,
                                                            fallback_used, ProviderError)>>,
                                     NewStats(0))
                         ELSE Escape
                      /\ UNCHANGED provider
                 ELSE /\ provider' = "gpt4"
                      /\ pc' = "done"
                      /\ outcome' = Returned(
                             <<TranslationResult(arg.key, arg.source, answer.text,
                                   Score(arg.source, answer.text), provider',
                                   fallback_used, NoError)>>,
                             NewStats(0))
    /\ UNCHANGED <<pureVars, reviewVars, concurrentVars, serviceVars, streamVars>>
    /\ UNCHANGED <<quality_threshold, call, fallback_used, batchVars>>

Next ==
    \/ BatchStart
    \/ DeeplChunkOk
    \/ DeeplChunkRaise
    \/ BatchScore
    \/ OpenaiChunkOk
    \/ OpenaiChunkRetry
    \/ BatchFinish
    \/ TranslateStart
    \/ TranslateDeepl
    \/ TranslateOpenai

Spec == Init /\ [][Next]_vars


\* ------------------------------------------------------------------------
\* PlaceholderValidator.validate, called on its own
\* ------------------------------------------------------------------------
MaxTokens == 3

\* format specifiers a text is made of: two plain ones, two positional ones
PlaceholderTokens ==
    {<<"%", "d">>, <<"%", "@">>, <<"%", "1", "$", "@">>, <<"%", "2", "$", "@">>}

TokenLists == UNION {[1..n -> PlaceholderTokens] : n \in 0..MaxTokens}

\* the text that carries the tokens one after the other
TextOf(tokens) == Flatten(tokens)

ValidateCalls ==
    {[fn |-> "validate", source_tokens |-> a, translation_tokens |-> b] :
        a \in TokenLists, b \in TokenLists}

NotReturned == [done |-> FALSE]

ValidateInit ==
    /\ fcall \in ValidateCalls
    /\ fresult = NotReturned
    /\ TranslatorIdle /\ ReviewIdle /\ ConcurrentIdle /\ ServiceIdle /\ StreamIdle

\* validate(source, translation)
CallValidate ==
    /\ fcall.fn = "validate"
    /\ ~fresult.done
    /\ fresult' = [done |-> TRUE,
                   value |-> Validate(TextOf(fcall.source_tokens),
                                      TextOf(fcall.translation_tokens))]
    /\ UNCHANGED <<fcall, translatorVars, reviewVars, concurrentVars, serviceVars, streamVars>>

ValidateNext == CallValidate

ValidateSpec == ValidateInit /\ [][ValidateNext]_vars


\* ------------------------------------------------------------------------
\* QualityScorer.score, called on its own with required glossary terms
\* ------------------------------------------------------------------------
MaxGlossaryTerms == 51

\* _score_glossary with required terms: total_required of them occur in the
\* source and matched of these have their glossary translation in the
\* translation; the score (matched / total_required) * 100 is kept as a
\* fraction of points
ScoreGlossaryTerms(total_required, matched) ==
    IF total_required = 0 THEN [score |-> [num |-> 100, den |-> 1], issues |-> <<>>]
    ELSE [score |-> [num |-> matched * 100, den |-> total_required],
          issues |-> [k \in 1..(total_required - matched) |-> "glossary_term"]]

\* the weighted sum of score as a fraction of hundredths of a point
WeightedSum(placeholder_score, glossary_score, length_score, format_score) ==
    [num |-> (placeholder_score * 40 + length_score * 20 + format_score * 15)
                 * glossary_score.den + 25 * glossary_score.num,
     den |-> glossary_score.den]

\* round(overall, 2), in hundredths: the nearest one, the even one on a tie
RoundHundredths(num, den) ==
    IF 2 * (num % den) < den THEN num \div den
    ELSE IF 2 * (num % den) > den THEN (num \div den) + 1
    ELSE (num \div den) + ((num \div den) % 2)

\* the category is decided on the weighted sum before it is rounded (a
\* comparison with 95 or 80 points is a comparison of its whole hundredths),
\* the overall reported is the rounded sum
CategorizedTerms(sum, ph, gl, ln, fm) ==
    QualityScore(RoundHundredths(sum.num, sum.den), ph.score, gl.score, ln.score, fm.score,
                 Category(ph.score, sum.num \div sum.den),
                 ph.issues \o gl.issues \o ln.issues \o fm.issues)

CombinedTerms(ph, gl, ln, fm) ==
    CategorizedTerms(WeightedSum(ph.score, gl.score, ln.score, fm.score), ph, gl, ln, fm)

\* score(source, translation, target_lang, required_glossary_terms=...)
ScoreWithTerms(source, translation, total_required, matched) ==
    CombinedTerms(ScorePlaceholders(source, translation),
                  ScoreGlossaryTerms(total_required, matched),
                  ScoreLength(source, translation), ScoreFormat(source, translation))

SrcWord == <<"a", "b", "c", "d">>                          \* "abcd"
TrWord == <<"e", "f", "g", "h">>                           \* as long as the source
TrWordLonger == <<"e", "f", "g", "h", "i", "j", "k">>      \* 1.75 times the source
TrWordBroken == <<"e", "\n", " ", " ", "f", "g", "h">>     \* and a newline, a double space

\* (source, translation) pairs score is called with
ScoreTexts ==
    {<<SrcWord, TrWord>>, <<SrcWord, TrWordLonger>>, <<SrcWord, TrWordBroken>>,
     <<SrcText, TrGood>>, <<SrcText, TrReordered>>, <<SrcText, TrMissing>>}

ScoreCalls ==
    {[fn |-> "score", source |-> st[1], translation |-> st[2],
      total_required |-> n, matched |-> m] :
        st \in ScoreTexts, n \in 0..MaxGlossaryTerms, m \in 0..MaxGlossaryTerms}

ScoreInit ==
    /\ fcall \in {c \in ScoreCalls : c.matched <= c.total_required}
    /\ fresult = NotReturned
    /\ TranslatorIdle /\ ReviewIdle /\ ConcurrentIdle /\ ServiceIdle /\ StreamIdle

CallScore ==
    /\ fcall.fn = "score"
    /\ ~fresult.done
    /\ fresult' = [done |-> TRUE,
                   value |-> ScoreWithTerms(fcall.source, fcall.translation,
                                            fcall.total_required, fcall.matched)]
    /\ UNCHANGED <<fcall, translatorVars, reviewVars, concurrentVars, serviceVars, streamVars>>

ScoreNext == CallScore

ScoreSpec == ScoreInit /\ [][ScoreNext]_vars


\* ------------------------------------------------------------------------
\* LLMReviewer: ReviewResult, review and review_batch
\* ------------------------------------------------------------------------
MaxReviewItems == 2

\* a field of the response: it is not there, it holds a value float()
\* rejects, or it holds a value
Missing == [state |-> "missing"]
Invalid == [state |-> "invalid"]
Field(value) == [state |-> "value", value |-> value]
\* suggested_fix = None
NoFix == "None"

ReviewResult(key, semantic_score, fluency_score, issues, suggested_fix) ==
    [key |-> key, semantic_score |-> semantic_score, fluency_score |-> fluency_score,
     issues |-> issues, suggested_fix |-> suggested_fix]

\* the whole scores up to 100 whose sum semantic * 0.7 + fluency * 0.3 is
\* exactly 80 and comes out as 79.99999999999999 in double precision
FallsShortOf80 == {<<92, 52>>}

\* ReviewResult.overall_score in tenths of a point; short tells that the
\* double computed falls short of an exact value of 80
OverallScore(r) ==
    [tenths |-> 7 * r.semantic_score + 3 * r.fluency_score,
     short |-> <<r.semantic_score, r.fluency_score>> \in FallsShortOf80]

\* self.overall_score >= 80
AtLeast80(overall_score) ==
    overall_score.tenths > 800 \/ (overall_score.tenths = 800 /\ ~overall_score.short)

\* ReviewResult.passed without the floor on the semantic score
PassedByOverall(r) == AtLeast80(OverallScore(r))

\* ReviewResult.passed
Passed(r) == AtLeast80(OverallScore(r)) /\ r.semantic_score >= 70

\* ReviewResult.needs_attention
NeedsAttention(r) == ~Passed(r) \/ Len(r.issues) > 0

\* what the chat completion call of review can end in: it raises, its content
\* is not JSON, the JSON is not an object, or it is an object whose fields
\* are there or not
ReviewScoresSemantic == {Missing, Invalid, Field(69), Field(80), Field(92)}
ReviewScoresFluency == {Missing, Field(52), Field(80), Field(110)}
ReviewReplies ==
    {[kind |-> k] : k \in {"raise", "not_json", "not_object"}}
    \cup {[kind |-> "object", semantic_score |-> s, fluency_score |-> f,
           issues |-> is, suggested_fix |-> fix] :
            s \in ReviewScoresSemantic, f \in ReviewScoresFluency,
            is \in {Missing, Field(<<"wrong meaning">>)},
            fix \in {Missing, Field("fix")}}

\* where review fails on the reply: in the API call ("create"), in json.loads
\* ("parse"), or while the fields are read and converted ("read"); "none"
\* when it does not
FailureSite(reply) ==
    IF reply.kind = "raise" THEN "create"
    ELSE IF reply.kind = "not_json" THEN "parse"
    ELSE IF reply.kind = "not_object" THEN "read"
    ELSE IF reply.semantic_score.state = "invalid" \/ reply.fluency_score.state = "invalid"
         THEN "read"
    ELSE "none"

\* result_data.get(name, default)
GetOr(field, default) == IF field.state = "missing" THEN default ELSE field.value

\* a try block that covers the API call only
ReviewCaughtCallOnly(site) == site = "create"

\* the try block of review covers the call, json.loads and the conversions
ReviewCaught(site) == site \in {"create", "parse", "read"}

\* the except branch of review
ReviewFailed(key) == ReviewResult(key, 0, 0, <<"Review failed">>, NoFix)

\* review(source, translation, target_lang, key): the ReviewResult returned,
\* or raised |-> TRUE when an exception leaves it
Review(key, reply) ==
    IF FailureSite(reply) = "none"
    THEN [raised |-> FALSE,
          result |-> ReviewResult(key, GetOr(reply.semantic_score, 0),
                                  GetOr(reply.fluency_score, 0),
                                  GetOr(reply.issues, <<>>),
                                  GetOr(reply.suggested_fix, NoFix))]
    ELSE IF ReviewCaught(FailureSite(reply))
    THEN [raised |-> FALSE, result |-> ReviewFailed(key)]
    ELSE [raised |-> TRUE, result |-> ReviewFailed(key)]

\* the translations review_batch is given, and the one of a review call
ReviewItems == UNION {{[k \in 1..n |-> [key |-> k]]} : n \in 0..MaxReviewItems}
ReviewCalls ==
    {[op |-> "review", items |-> <<[key |-> 1]>>]}
    \cup {[op |-> "review_batch", items |-> items] : items \in ReviewItems}

ReviewInit ==
    /\ review_call \in ReviewCalls
    /\ review_results = <<>>
    /\ review_requests = <<>>
    /\ review_outcome = "running"
    /\ TranslatorIdle /\ PureIdle /\ ConcurrentIdle /\ ServiceIdle /\ StreamIdle

\* what review_batch does with what review did for the next item
ReviewedNext(reviewed, reply) ==
    /\ review_requests' = Append(review_requests, reply)
    /\ IF reviewed.raised
       THEN /\ review_outcome' = "raised"
            /\ UNCHANGED review_results
       ELSE /\ review_results' = Append(review_results, reviewed.result)
            /\ UNCHANGED review_outcome

\* one iteration of the loop of review_batch
ReviewBatchStep ==
    /\ review_call.op = "review_batch"
    /\ review_outcome = "running"
    /\ Len(review_results) < Len(review_call.items)
    /\ \E reply \in ReviewReplies :
          ReviewedNext(Review(review_call.items[Len(review_results) + 1].key, reply), reply)
    /\ UNCHANGED <<review_call, translatorVars, pureVars, concurrentVars, serviceVars, streamVars>>

\* return results
ReviewBatchReturn ==
    /\ review_call.op = "review_batch"
    /\ review_outcome = "running"
    /\ Len(review_results) = Len(review_call.items)
    /\ review_outcome' = "returned"
    /\ UNCHANGED <<review_call, review_results, review_requests,
                   translatorVars, pureVars, concurrentVars, serviceVars, streamVars>>

\* what a review call ends in
ReviewedOne(reviewed, reply) ==
    /\ review_requests' = Append(review_requests, reply)
    /\ review_results' = IF reviewed.raised THEN <<>> ELSE <<reviewed.result>>
    /\ review_outcome' = IF reviewed.raised THEN "raised" ELSE "returned"

\* review called on its own
ReviewOne ==
    /\ review_call.op = "review"
    /\ review_outcome = "running"
    /\ \E reply \in ReviewReplies :
          ReviewedOne(Review(review_call.items[1].key, reply), reply)
    /\ UNCHANGED <<review_call, translatorVars, pureVars, concurrentVars, serviceVars, streamVars>>

ReviewNext ==
    \/ ReviewBatchStep
    \/ ReviewBatchReturn
    \/ ReviewOne

ReviewSpec == ReviewInit /\ [][ReviewNext]_vars


\* ------------------------------------------------------------------------
\* OpenAIClient.translate_batch, called on its own
\* ------------------------------------------------------------------------
MaxClientTexts == 2
MaxResponseItems == 3

\* the items a response can hold: the id as a string or as a number, the id
\* of a text of the request or another one, with or without a translation
ResponseItems ==
    {[id |-> id, translation |-> t] :
        id \in {JsonString(n) : n \in 0..MaxClientTexts}
               \cup {JsonNumber(n) : n \in 0..(MaxClientTexts - 1)},
        t \in {TrGood, TrReordered, TrEmpty}}

ClientCalls ==
    {[fn |-> "translate_batch", texts |-> [k \in 1..m |-> SrcText], parsed |-> parsed] :
        m \in 0..MaxClientTexts,
        parsed \in UNION {[1..n -> ResponseItems] : n \in 0..MaxResponseItems}}

ClientInit ==
    /\ fcall \in ClientCalls
    /\ fresult = NotReturned
    /\ TranslatorIdle /\ ReviewIdle /\ ConcurrentIdle /\ ServiceIdle /\ StreamIdle

\* translate_batch(texts, target_lang) on the parsed response
CallTranslateBatch ==
    /\ fcall.fn = "translate_batch"
    /\ ~fresult.done
    /\ fresult' = [done |-> TRUE,
                   value |-> IF fcall.texts = <<>> THEN <<>>
                             ELSE OpenAIClientTranslateBatch(fcall.texts, fcall.parsed)]
    /\ UNCHANGED <<fcall, translatorVars, reviewVars, concurrentVars, serviceVars, streamVars>>

ClientNext == CallTranslateBatch

ClientSpec == ClientInit /\ [][ClientNext]_vars


\* ------------------------------------------------------------------------
\* Concurrent invocations of translate_batch on one translator
\* ------------------------------------------------------------------------
MaxConcurrentItems == 2

Invocations == {1, 2}

\* the object that holds results and stats of an invocation, were they
\* attributes of the translator
CellOfTranslator(p) == 0

\* results = {} and stats = TranslationStats(...) are created by each
\* invocation: the cell that holds them is the invocation's own
NewCell(p) == p

\* the input mappings of an invocation; the two invocations have different keys
ConcurrentInputs(p) ==
    UNION {{[k \in 1..n |-> Entry(10 * p + k, f[k])] : f \in [1..n -> BatchSources]} :
           n \in 0..MaxConcurrentItems}

Frame(strings) ==
    [strings |-> strings, pc |-> "start", translatable |-> <<>>, deepl_results |-> <<>>,
     fallback_needed |-> <<>>, openai_results |-> <<>>, i |-> 0, outcome |-> Running]

EmptyCell == [results |-> <<>>, stats |-> NewStats(0)]

\* what the provider call of the next step answers: nothing when the step
\* calls no provider; a DeepL chunk call raises or returns one text per text;
\* for an LLM chunk, reply holds what the batch call returned or, when it
\* raised, what the individual retries produced ("" for a retry that raised)
NoAnswer == [raised |-> FALSE, reply |-> <<>>]
AnswersFor(f) ==
    IF f.pc = "deepl"
    THEN LET m == Len(Chunk(f.translatable, f.i, DeeplBatchSize))
         IN  {[raised |-> TRUE, reply |-> <<>>]}
             \cup {[raised |-> FALSE, reply |-> r] : r \in [1..m -> {TrGood, TrMissing}]}
    ELSE IF f.pc = "openai"
    THEN LET m == Len(Chunk(f.fallback_needed, f.i, OpenaiBatchSize))
         IN  {[raised |-> b, reply |-> r] : b \in BOOLEAN, r \in [1..m -> {TrGood, TrEmpty}]}
    ELSE {NoAnswer}

\* Step 1 and the early return
FrameStart(f, res, st, tr) ==
    [frame |-> IF tr = <<>>
               THEN [f EXCEPT !.pc = "done", !.outcome = Returned(ResultValues(res), st)]
               ELSE [f EXCEPT !.pc = "deepl", !.translatable = tr],
     cell |-> [results |-> res, stats |-> st]]

\* the end of one iteration of a chunk loop over items
LoopEnd(f, batch_size, items, after) ==
    [f EXCEPT !.i = IF f.i + batch_size >= Len(items) THEN 0 ELSE f.i + batch_size,
              !.pc = IF f.i + batch_size >= Len(items) THEN after ELSE f.pc]

\* one chunk of _batch_translate_deepl
FrameDeepl(f, cell, batch, answer) ==
    [frame |-> [LoopEnd(f, DeeplBatchSize, f.translatable, "score") EXCEPT
                   !.deepl_results =
                       PutAll(f.deepl_results,
                              IF answer.raised THEN DeeplChunkFailed(batch)
                              ELSE DeeplChunkResults(batch, answer.reply))],
     cell |-> cell]

\* Step 3
FrameScore(f, scored) ==
    [frame |-> [f EXCEPT !.fallback_needed = scored.fallback_needed,
                         !.pc = IF scored.fallback_needed # <<>> THEN "openai" ELSE "finish"],
     cell |-> [results |-> scored.results, stats |-> scored.stats]]

\* one chunk of _batch_translate_openai
FrameOpenai(f, cell, batch, answer) ==
    [frame |-> [LoopEnd(f, OpenaiBatchSize, f.fallback_needed, "finish") EXCEPT
                   !.openai_results =
                       PutAll(f.openai_results,
                              [k \in 1..ZipLen(batch, answer.reply) |->
                                  [key |-> batch[k].key, source |-> batch[k].source,
                                   translation |-> answer.reply[k]]])],
     cell |-> cell]

\* Step 5 and the ordered return
FrameReturn(f, final) ==
    [frame |-> [f EXCEPT
                   !.pc = "done",
                   !.outcome =
                       IF \A k \in DOMAIN f.strings : HasKey(final.results, f.strings[k].key)
                       THEN Returned(OrderedResults(f.strings, final.results), final.stats)
                       ELSE Raised],
     cell |-> final]

\* Step 4 (the loop over openai_results), then Step 5
FrameFinish(f, collected) ==
    FrameReturn(f, RemainingErrors(collected.results, collected.stats, f.translatable))

\* the next step of an invocation of translate_batch whose results and stats
\* are in cell, up to and including its next provider call
FrameStep(f, cell, threshold, answer) ==
    IF f.pc = "start"
    THEN FrameStart(f, SkipResults(f.strings), NewStats(Len(f.strings)),
                    Translatable(f.strings))
    ELSE IF f.pc = "deepl"
    THEN FrameDeepl(f, cell, Chunk(f.translatable, f.i, DeeplBatchSize), answer)
    ELSE IF f.pc = "score"
    THEN FrameScore(f, ScoreDeeplResults(cell.results, cell.stats, f.deepl_results,
                                         threshold))
    ELSE IF f.pc = "openai"
    THEN FrameOpenai(f, cell, Chunk(f.fallback_needed, f.i, OpenaiBatchSize), answer)
    ELSE FrameFinish(f, IF f.fallback_needed # <<>>
                        THEN CollectOpenaiResults(cell.results, cell.stats, f.openai_results)
                        ELSE cell)

ConcurrentInit ==
    /\ quality_threshold \in Thresholds
    /\ \E s1 \in ConcurrentInputs(1), s2 \in ConcurrentInputs(2) :
          /\ invocations = (1 :> Frame(s1)) @@ (2 :> Frame(s2))
          /\ alone = (1 :> [frame |-> Frame(s1), cell |-> EmptyCell])
                     @@ (2 :> [frame |-> Frame(s2), cell |-> EmptyCell])
    /\ cells = [c \in {0} \cup Invocations |-> EmptyCell]
    /\ call = <<>> /\ pc = "idle"
    /\ results = <<>> /\ stats = <<>> /\ translatable = <<>> /\ deepl_results = <<>>
    /\ fallback_needed = <<>> /\ openai_results = <<>> /\ i = 0
    /\ provider = "" /\ fallback_used = FALSE /\ progress = <<>>
    /\ requests = <<>> /\ outcome = <<>>
    /\ PureIdle /\ ReviewIdle /\ ServiceIdle /\ StreamIdle

\* what a step of invocation p leaves behind, together and alone
Stepped(p, together, solo) ==
    /\ invocations' = [invocations EXCEPT ![p] = together.frame]
    /\ cells' = [cells EXCEPT ![NewCell(p)] = together.cell]
    /\ alone' = [alone EXCEPT ![p] = solo]

\* invocation p runs up to and including its next provider call
InvocationStep(p) ==
    /\ invocations[p].pc # "done"
    /\ \E answer \in AnswersFor(invocations[p]) :
          Stepped(p, FrameStep(invocations[p], cells[NewCell(p)], quality_threshold, answer),
                  FrameStep(alone[p].frame, alone[p].cell, quality_threshold, answer))
    /\ UNCHANGED <<translatorVars, pureVars, reviewVars, serviceVars, streamVars>>

ConcurrentNext == \E p \in Invocations : InvocationStep(p)

ConcurrentSpec == ConcurrentInit /\ [][ConcurrentNext]_vars


\* ------------------------------------------------------------------------
\* TranslationService.translate_file: select, translate_batch, write back
\* ------------------------------------------------------------------------
MaxFileKeys == 2

\* the target languages of the job, in the order given
Languages == <<"de", "fr">>

NoUnit == [set |-> FALSE, value |-> <<>>, state |-> ""]
StringUnit(value, state) == [set |-> TRUE, value |-> value, state |-> state]

NoVariations == [set |-> FALSE, payload |-> ""]
PluralVariations == [set |-> TRUE, payload |-> "plural"]

Localization(string_unit, variations) ==
    [present |-> TRUE, string_unit |-> string_unit, variations |-> variations]
\* language not in entry.localizations
NoLocalization == [present |-> FALSE, string_unit |-> NoUnit, variations |-> NoVariations]

\* what the parser makes of one language of one entry of a file
ParsedLocalizations ==
    {NoLocalization,
     Localization(NoUnit, PluralVariations),
     Localization(StringUnit(TrGood, "translated"), NoVariations)}

StringEntry(source, localizations) == [source |-> source, localizations |-> localizations]

LanguageSet == {Languages[k] : k \in DOMAIN Languages}

\* parsed files: the entry of key k is at position k
ParsedFiles ==
    UNION {[1..n -> {StringEntry(s, l) : s \in {SrcText},
                                         l \in [LanguageSet -> ParsedLocalizations]}] :
           n \in 1..MaxFileKeys}

HasTranslation(entry, language) ==
    /\ entry.localizations[language].present
    /\ entry.localizations[language].string_unit.set
    /\ entry.localizations[language].string_unit.value # <<>>

SetTranslation(entry, language, value, state) ==
    [entry EXCEPT !.localizations[language] =
                      Localization(StringUnit(value, state), NoVariations)]

\* TranslationResult.success
Success(result) == result.error = NoError /\ result.translation # <<>>

\* {k: v for k, v in all_strings.items() if ... not has_translation(lang)}
StringsToTranslate(file, language) ==
    SelectSeq([k \in DOMAIN file |-> Entry(k, file[k].source)],
              LAMBDA e : ~HasTranslation(file[e.key], language))

\* the write-back loop over results, from result k on
RECURSIVE WriteBackFrom(_, _, _, _)
WriteBackFrom(file, language, res, k) ==
    IF k > Len(res) THEN file
    ELSE WriteBackFrom(
             IF Success(res[k]) /\ res[k].key \in DOMAIN file
             THEN [file EXCEPT ![res[k].key] =
                      SetTranslation(file[res[k].key], language, res[k].translation,
                                     "translated")]
             ELSE file,
             language, res, k + 1)

WriteBack(file, language, res) == WriteBackFrom(file, language, res, 1)

\* provider answers during a job: the LLM too may drop a placeholder
ServiceAnswersFor(f) ==
    IF f.pc = "deepl"
    THEN LET m == Len(Chunk(f.translatable, f.i, DeeplBatchSize))
         IN  {[raised |-> TRUE, reply |-> <<>>]}
             \cup {[raised |-> FALSE, reply |-> r] : r \in [1..m -> {TrGood, TrMissing}]}
    ELSE IF f.pc = "openai"
    THEN LET m == Len(Chunk(f.fallback_needed, f.i, OpenaiBatchSize))
         IN  {[raised |-> b, reply |-> r] :
                 b \in BOOLEAN, r \in [1..m -> {TrGood, TrMissing, TrEmpty}]}
    ELSE {NoAnswer}

ServiceState(at, lang_idx, frame, cell, before) ==
    [pc |-> at, lang_idx |-> lang_idx, frame |-> frame, cell |-> cell, before |-> before]

ServiceInit ==
    /\ xcstrings \in ParsedFiles
    /\ service = ServiceState("select", 1, Frame(<<>>), EmptyCell, xcstrings)
    /\ quality_threshold \in Thresholds
    /\ call = <<>> /\ pc = "idle"
    /\ results = <<>> /\ stats = <<>> /\ translatable = <<>> /\ deepl_results = <<>>
    /\ fallback_needed = <<>> /\ openai_results = <<>> /\ i = 0
    /\ provider = "" /\ fallback_used = FALSE /\ progress = <<>>
    /\ requests = <<>> /\ outcome = <<>>
    /\ PureIdle /\ ReviewIdle /\ ConcurrentIdle /\ StreamIdle

\* the head of the loop over languages, and the return after the last one
Selected(strings) ==
    service' = IF strings = <<>>
               THEN [service EXCEPT !.lang_idx = service.lang_idx + 1,
                                    !.before = xcstrings]
               ELSE [service EXCEPT !.pc = "batch", !.frame = Frame(strings),
                                    !.cell = EmptyCell, !.before = xcstrings]

ServiceSelect ==
    /\ service.pc = "select"
    /\ IF service.lang_idx > Len(Languages)
       THEN service' = [service EXCEPT !.pc = "done"]
       ELSE Selected(StringsToTranslate(xcstrings, Languages[service.lang_idx]))
    /\ UNCHANGED <<xcstrings, translatorVars, pureVars, reviewVars, concurrentVars, streamVars>>

ServiceStepped(next) ==
    service' = [service EXCEPT !.frame = next.frame, !.cell = next.cell]

\* translate_batch in the worker thread, up to and including its next provider call
ServiceBatchStep ==
    /\ service.pc = "batch"
    /\ service.frame.pc # "done"
    /\ \E answer \in ServiceAnswersFor(service.frame) :
          ServiceStepped(FrameStep(service.frame, service.cell, quality_threshold, answer))
    /\ UNCHANGED <<xcstrings, translatorVars, pureVars, reviewVars, concurrentVars, streamVars>>

\* results, stats = await translation_task, then the write-back loop
ServiceWriteBack ==
    /\ service.pc = "batch"
    /\ service.frame.pc = "done"
    /\ IF service.frame.outcome.kind = "raised"
       THEN /\ service' = [service EXCEPT !.pc = "failed"]
            /\ UNCHANGED xcstrings
       ELSE /\ xcstrings' = WriteBack(xcstrings, Languages[service.lang_idx],
                                      service.frame.outcome.results)
            /\ service' = [service EXCEPT !.pc = "select",
                                          !.lang_idx = service.lang_idx + 1]
    /\ UNCHANGED <<translatorVars, pureVars, reviewVars, concurrentVars, streamVars>>

ServiceNext == ServiceSelect \/ ServiceBatchStep \/ ServiceWriteBack

ServiceSpec == ServiceInit /\ [][ServiceNext]_vars


\* ------------------------------------------------------------------------
\* HybridTranslator._is_non_translatable, called on its own
\* ------------------------------------------------------------------------
MaxTextLen == 3

\* the characters of the classified texts
ClassifyAlphabet == {"7", ".", ",", "%", "a", " ", "@"}

ClassifyCalls ==
    {[fn |-> "is_non_translatable", text |-> t] :
        t \in UNION {[1..n -> ClassifyAlphabet] : n \in 0..MaxTextLen}}

ClassifyInit ==
    /\ fcall \in ClassifyCalls
    /\ fresult = NotReturned
    /\ TranslatorIdle /\ ReviewIdle /\ ConcurrentIdle /\ ServiceIdle /\ StreamIdle

\* self._is_non_translatable(text)
CallClassify ==
    /\ fcall.fn = "is_non_translatable"
    /\ ~fresult.done
    /\ fresult' = [done |-> TRUE, value |-> IsNonTranslatable(fcall.text)]
    /\ UNCHANGED <<fcall, translatorVars, reviewVars, concurrentVars, serviceVars, streamVars>>

ClassifyNext == CallClassify

ClassifySpec == ClassifyInit /\ [][ClassifyNext]_vars


\* ------------------------------------------------------------------------
\* JobManager, _run_translation_job and the SSE streams of one job
\* ------------------------------------------------------------------------
MaxClients == 2
MaxProgress == 2

Clients == 1..MaxClients

Event(kind) == [kind |-> kind]

\* create_job has registered the job and its queue; no stream is open
StreamInit ==
    /\ queues = [registered |-> TRUE, items |-> <<>>]
    /\ jobs = [pc |-> "pending", status |-> "pending", sent |-> 0]
    /\ clients = [c \in Clients |-> [pc |-> "idle", received |-> <<>>, heartbeat |-> FALSE]]
    /\ TranslatorIdle /\ PureIdle /\ ReviewIdle /\ ConcurrentIdle /\ ServiceIdle

\* await self.queues[job_id].put(item), if the job has a queue
QueuePut(q, item) == IF q.registered THEN [q EXCEPT !.items = Append(@, item)] ELSE q

\* cleanup_job: the queue leaves self.queues; streams that hold it keep it
CleanupJob(q) == [q EXCEPT !.registered = FALSE]

\* _run_translation_job up to the await of translate_file
JobSetRunning ==
    /\ jobs.pc = "pending"
    /\ jobs' = [jobs EXCEPT !.pc = "running", !.status = "running"]
    /\ UNCHANGED <<queues, clients>>
    /\ UNCHANGED <<translatorVars, pureVars, reviewVars, concurrentVars, serviceVars>>

\* progress_callback -> send_progress
JobSendProgress ==
    /\ jobs.pc = "running"
    /\ jobs.sent < MaxProgress
    /\ queues' = QueuePut(queues, Event("progress"))
    /\ jobs' = [jobs EXCEPT !.sent = @ + 1]
    /\ UNCHANGED clients
    /\ UNCHANGED <<translatorVars, pureVars, reviewVars, concurrentVars, serviceVars>>

\* translate_file has returned or raised: set_completed and send_complete, or
\* set_failed and send_error, then cleanup_job in the finally clause; the put
\* into the unbounded queue does not suspend, so no other task runs in between
JobFinish ==
    /\ jobs.pc = "running"
    /\ \E success \in BOOLEAN :
          /\ jobs' = [jobs EXCEPT !.pc = "finished",
                                  !.status = IF success THEN "completed" ELSE "failed"]
          /\ queues' = CleanupJob(QueuePut(queues,
                                   Event(IF success THEN "complete" ELSE "error")))
    /\ UNCHANGED clients
    /\ UNCHANGED <<translatorVars, pureVars, reviewVars, concurrentVars, serviceVars>>

\* stream_translation_progress: the job is known, the response is created
ClientOpen(c) ==
    /\ clients[c].pc = "idle"
    /\ clients' = [clients EXCEPT ![c].pc = "opened"]
    /\ UNCHANGED <<queues, jobs>>
    /\ UNCHANGED <<translatorVars, pureVars, reviewVars, concurrentVars, serviceVars>>

\* stream_progress starts: without a queue it yields one unnamed data message
\* ("Job not found") and returns, otherwise it takes hold of the queue
ClientStart(c) ==
    /\ clients[c].pc = "opened"
    /\ clients' = IF queues.registered
                  THEN [clients EXCEPT ![c].pc = "streaming"]
                  ELSE [clients EXCEPT ![c].pc = "ended",
                                       ![c].received = Append(@, "message")]
    /\ UNCHANGED <<queues, jobs>>
    /\ UNCHANGED <<translatorVars, pureVars, reviewVars, concurrentVars, serviceVars>>

\* queue.get() returns an item: a complete or error item ends the stream
ClientReceive(c) ==
    /\ clients[c].pc = "streaming"
    /\ queues.items # <<>>
    /\ queues' = [queues EXCEPT !.items = Tail(@)]
    /\ clients' = [clients EXCEPT
                      ![c].received = Append(@, Head(queues.items).kind),
                      ![c].pc = IF Head(queues.items).kind \in {"complete", "error"}
                                THEN "ended" ELSE "streaming"]
    /\ UNCHANGED jobs
    /\ UNCHANGED <<translatorVars, pureVars, reviewVars, concurrentVars, serviceVars>>

\* queue.get() times out: a heartbeat comment is sent and the loop goes on
ClientHeartbeat(c) ==
    /\ clients[c].pc = "streaming"
    /\ queues.items = <<>>
    /\ clients' = [clients EXCEPT ![c].heartbeat = TRUE]
    /\ UNCHANGED <<queues, jobs>>
    /\ UNCHANGED <<translatorVars, pureVars, reviewVars, concurrentVars, serviceVars>>

JobStep == JobSetRunning \/ JobSendProgress \/ JobFinish

ClientStep(c) == ClientStart(c) \/ ClientReceive(c) \/ ClientHeartbeat(c)

StreamNext == JobStep \/ \E c \in Clients : ClientOpen(c) \/ ClientStep(c)

\* the background task runs to its end and every open stream keeps running
StreamSpec ==
    /\ StreamInit
    /\ [][StreamNext]_vars
    /\ WF_vars(JobStep)
    /\ \A c \in Clients : WF_vars(ClientStart(c) \/ ClientReceive(c))

\* ------------------------------------------------------------------------
\* Properties
\* ------------------------------------------------------------------------
IsBatch == call.op = "translate_batch"
IsSingle == call.op = "translate"
Done == pc = "done"
ReturnedBatch == Done /\ IsBatch /\ outcome.kind = "returned"
ReturnedSingle == Done /\ IsSingle /\ outcome.kind = "returned"

\* the source text the input mapping holds for a key
SourceOf(key) == Get(call.strings, key).source

\* the provider calls made so far, by provider
RequestsTo(prov) == {r \in DOMAIN requests : requests[r].provider = prov}

Overridden(quality) == quality.placeholder_score < 100 => quality.category = "red"

\* C1: every quality score that score computes for a provider answer, and the
\* quality score of every returned TranslationResult (skip, fast-MT, LLM and
\* error results), has category red whenever its placeholder sub-score is
\* below 100.
C1_StrictPlaceholderOverride ==
    /\ \A k \in DOMAIN outcome.results : Overridden(outcome.results[k].quality_score)
    /\ \A r \in DOMAIN requests : \A j \in DOMAIN requests[r].reply :
          Overridden(Score(SourceOf(requests[r].keys[j]), requests[r].reply[j]))

\* a batch returned an LLM translation whose only defect is a placeholder
\* warning: glossary, length and format are all 100, overall is 92, and the
\* category is red
C1_Witness ==
    /\ ReturnedBatch
    /\ \E k \in DOMAIN outcome.results :
          /\ outcome.results[k].provider = "gpt4"
          /\ outcome.results[k].quality_score.placeholder_score = 80
          /\ outcome.results[k].quality_score.glossary_score = 100
          /\ outcome.results[k].quality_score.length_score = 100
          /\ outcome.results[k].quality_score.format_score = 100
          /\ outcome.results[k].quality_score.overall = 9200
          /\ outcome.results[k].quality_score.category = "red"

\* the number of returned results that carry a key
ResultsFor(key) == Cardinality({k \in DOMAIN outcome.results : outcome.results[k].key = key})

\* C2: translate_batch returns exactly one TranslationResult per input key:
\* the list is as long as the input mapping and holds each key once, failed
\* keys included.
C2_OneResultPerKey ==
    (Done /\ IsBatch) =>
        /\ outcome.kind = "returned"
        /\ Len(outcome.results) = Len(call.strings)
        /\ \A k \in DOMAIN call.strings : ResultsFor(call.strings[k].key) = 1

\* a batch of three returned although DeepL answered a chunk with fewer
\* results than texts and one item failed
C2_Witness ==
    /\ ReturnedBatch
    /\ Len(call.strings) = 3
    /\ \E r \in RequestsTo("deepl") :
          ~requests[r].raised /\ Len(requests[r].reply) < Len(requests[r].keys)
    /\ \E k \in DOMAIN outcome.results : outcome.results[k].error # NoError

\* C3: the i-th returned result carries the key of the i-th input entry, on
\* the early return as well as on the final return.
C3_InputOrder ==
    ReturnedBatch =>
        /\ Len(outcome.results) = Len(call.strings)
        /\ \A k \in DOMAIN call.strings : outcome.results[k].key = call.strings[k].key

\* a batch returned whose results were inserted into the dict in another
\* order than the input order (a skipped item after translated ones)
C3_Witness ==
    /\ ReturnedBatch
    /\ DictKeys(results) # DictKeys(call.strings)
    /\ \E k \in DOMAIN outcome.results : outcome.results[k].provider = "skip"
    /\ \E k \in DOMAIN outcome.results : outcome.results[k].provider = "gpt4"

\* the number of steps an entry point has left at most: one per chunk still
\* to be sent, plus the steps between the loops
StepsLeft ==
    CASE pc = "start" -> 2 * MaxItems + 4
      [] pc = "deepl" -> 2 * MaxItems + 3 - i
      [] pc = "score" -> MaxItems + 2
      [] pc = "openai" -> MaxItems + 1 - i
      [] pc = "finish" -> 1
      [] pc = "deepl_single" -> 2
      [] pc = "openai_single" -> 1
      [] pc = "done" -> 0

SingleResult == outcome.results[1]

\* the fast-MT answer of translate called for the fallback
DeeplAnswerNeedsFallback ==
    \E r \in RequestsTo("deepl") :
        /\ ~requests[r].raised
        /\ NeedsFallback(Score(SourceOf(requests[r].keys[1]), requests[r].reply[1]),
                         quality_threshold)

\* C5: in translate without force_gpt4, for a translatable source, the LLM
\* is called exactly if the fast-MT translation scores below the threshold
\* or red; if it is called the result has fallback_used, provider gpt4 and the
\* score of the LLM translation; otherwise it has no fallback_used, provider
\* deepl, and no LLM call was made.
C5_FallbackEscalation ==
    (ReturnedSingle /\ ~call.force_gpt4 /\ ~IsSkipped(call.strings[1].source)) =>
        /\ (RequestsTo("openai") # {}) = DeeplAnswerNeedsFallback
        /\ RequestsTo("openai") # {} =>
              /\ SingleResult.fallback_used
              /\ SingleResult.provider = "gpt4"
              /\ \A r \in RequestsTo("openai") :
                    ~requests[r].raised =>
                        SingleResult.quality_score =
                            Score(call.strings[1].source, requests[r].reply[1])
        /\ RequestsTo("openai") = {} =>
              /\ ~SingleResult.fallback_used
              /\ SingleResult.provider = "deepl"

\* the results of the translatable items
ErrorResults == {k \in DOMAIN outcome.results : outcome.results[k].error # NoError}

\* every provider call that was made raised
EveryCallRaised == requests # <<>> /\ \A r \in DOMAIN requests : requests[r].raised

\* C6: when every fast-MT call and every LLM call (batch and individual)
\* raises, translate_batch returns, all N translatable items have an error
\* result, failed_count is N and deepl_count and gpt4_count are 0.
C6_ExhaustionAccounting ==
    (Done /\ IsBatch /\ EveryCallRaised) =>
        /\ outcome.kind = "returned"
        /\ Len(outcome.results) = Len(call.strings)
        /\ \A k \in DOMAIN outcome.results :
              ~IsSkipped(outcome.results[k].source) => k \in ErrorResults
        /\ Cardinality(ErrorResults) = Len(translatable)
        /\ outcome.stats.failed_count = Len(translatable)
        /\ outcome.stats.deepl_count = 0
        /\ outcome.stats.gpt4_count = 0

\* three translatable items, both DeepL chunks, both LLM batch calls and all
\* three individual retries raised, and the batch returned three failures
C6_Witness ==
    /\ ReturnedBatch
    /\ EveryCallRaised
    /\ Len(translatable) = 3
    /\ Cardinality({r \in RequestsTo("openai") : requests[r].kind = "single"}) = 3
    /\ outcome.stats.failed_count = 3

\* fast-MT answered the key with a non-empty translation
DeeplTranslated(key) ==
    \E r \in RequestsTo("deepl") : \E j \in DOMAIN requests[r].reply :
        requests[r].keys[j] = key /\ requests[r].reply[j] # <<>>

\* the LLM calls (batch or individual) that carried the key
LlmRequestsFor(key) ==
    {r \in RequestsTo("openai") : \E j \in DOMAIN requests[r].keys : requests[r].keys[j] = key}

\* the LLM call r produced a translation for the key
LlmTranslated(r, key) ==
    \E j \in DOMAIN requests[r].reply :
        requests[r].keys[j] = key /\ requests[r].reply[j] # <<>>

\* C7: an item gets a failed result (provider error) only if fast-MT produced
\* no translation for it and the LLM was invoked for it and produced none.
C7_OnlyTotalExhaustionFails ==
    ReturnedBatch =>
        \A k \in DOMAIN outcome.results :
            outcome.results[k].provider = "error" =>
                /\ ~DeeplTranslated(outcome.results[k].key)
                /\ LlmRequestsFor(outcome.results[k].key) # {}
                /\ \A r \in LlmRequestsFor(outcome.results[k].key) :
                      ~LlmTranslated(r, outcome.results[k].key)

\* the individual LLM calls for a key made after call r
RetriesAfter(r, key) ==
    {q \in LlmRequestsFor(key) : q > r /\ requests[q].kind = "single"}

\* C8: after an LLM batch call that raised, every item of its chunk is
\* retried on its own; and an item of the fallback set is failed only if the
\* batch call that carried it raised and its individual retry failed too.
C8_FailedOnlyAfterRetry ==
    /\ \A r \in RequestsTo("openai") :
          (requests[r].kind = "batch" /\ requests[r].raised) =>
              \A j \in DOMAIN requests[r].keys : RetriesAfter(r, requests[r].keys[j]) # {}
    /\ ReturnedBatch =>
          \A k \in DOMAIN outcome.results :
              (outcome.results[k].provider = "error"
               /\ HasKey(fallback_needed, outcome.results[k].key)) =>
                  \E r \in LlmRequestsFor(outcome.results[k].key) :
                      /\ requests[r].kind = "batch"
                      /\ requests[r].raised
                      /\ \E q \in RetriesAfter(r, outcome.results[k].key) :
                            ~LlmTranslated(q, outcome.results[k].key)

\* the fallback set is known
FallbackSetKnown == pc \in {"openai", "finish"} \/ (pc = "done" /\ requests # <<>>)
\* _batch_translate_openai has returned
FallbackDone == pc = "finish" \/ (pc = "done" /\ requests # <<>>)

\* C9: when a fast-MT chunk call raises, every item of the chunk gets the
\* empty translation, enters the fallback set and is sent to the LLM; the
\* items of the chunks that were answered keep the translations fast-MT
\* returned for them.
C9_ChunkFailureDegrades ==
    IsBatch =>
        \A r \in RequestsTo("deepl") :
            IF requests[r].raised
            THEN \A j \in DOMAIN requests[r].keys :
                    /\ HasKey(deepl_results, requests[r].keys[j])
                    /\ Get(deepl_results, requests[r].keys[j]).translation = <<>>
                    /\ FallbackSetKnown => HasKey(fallback_needed, requests[r].keys[j])
                    /\ FallbackDone =>
                          \E q \in LlmRequestsFor(requests[r].keys[j]) :
                              requests[q].kind = "batch"
            ELSE \A j \in DOMAIN requests[r].reply :
                    /\ HasKey(deepl_results, requests[r].keys[j])
                    /\ Get(deepl_results, requests[r].keys[j]).translation
                           = requests[r].reply[j]

\* a batch returned after its first DeepL chunk raised and its second was
\* answered: the items of the first chunk came back from the LLM, the item of
\* the second kept its DeepL translation
C9_Witness ==
    /\ ReturnedBatch
    /\ Len(requests) >= 2
    /\ requests[1].provider = "deepl" /\ requests[1].raised /\ Len(requests[1].keys) = 2
    /\ requests[2].provider = "deepl" /\ ~requests[2].raised
    /\ \A j \in DOMAIN requests[1].keys :
          Get(outcome.results, requests[1].keys[j]).provider = "gpt4"
    /\ Get(outcome.results, requests[2].keys[1]).provider = "deepl"
    /\ Get(outcome.results, requests[2].keys[1]).translation = requests[2].reply[1]

\* C10: the current values passed to the progress callback during one
\* translate_batch call never decrease, and total stays the same.
C10_ProgressMonotonic ==
    \A k \in 1..(Len(progress) - 1) :
        /\ progress[k].current <= progress[k + 1].current
        /\ progress[k].total = progress[k + 1].total

\* the number of returned results without an error that have the category
ResolvedWith(category) ==
    Cardinality({k \in DOMAIN outcome.results :
                    /\ outcome.results[k].error = NoError
                    /\ outcome.results[k].quality_score.category = category})

\* C11: after translate_batch returns, green_count, yellow_count and red_count
\* are the numbers of returned results without an error whose category is
\* green, yellow and red, the skip results counting as green.
C11_CategoryStatsCoverResolved ==
    ReturnedBatch =>
        /\ outcome.stats.green_count = ResolvedWith("green")
        /\ outcome.stats.yellow_count = ResolvedWith("yellow")
        /\ outcome.stats.red_count = ResolvedWith("red")

\* the synthetic result of the short-circuit: the source echoed as it came in
IsSkipEcho(result, source) ==
    /\ result.provider = "skip"
    /\ result.source = source
    /\ result.translation = source
    /\ result.quality_score.category = "green"
    /\ result.quality_score.overall = 10000
    /\ result.fallback_used = FALSE
    /\ result.error = NoError

\* "", "42", "99%", ".png", "https://x.com", "user@x.com", "%@", " "
SkipExamples ==
    {<<>>, <<"4", "2">>, <<"9", "9", "%">>, <<".", "p", "n", "g">>,
     <<"h", "t", "t", "p", "s", ":", "/", "/", "x", ".", "c", "o", "m">>,
     <<"u", "s", "e", "r", "@", "x", ".", "c", "o", "m">>, <<"%", "@">>, <<" ">>}

\* C12: for an empty, whitespace-only or non-translatable source, translate
\* and translate_batch return a skip result that echoes the unstripped source
\* with category green, overall 100, no fallback and no error, and no
\* provider call ever carries that item.
C12_NonTranslatableShortCircuit ==
    /\ \A s \in SkipExamples : IsSkipped(s)
    /\ \A k \in DOMAIN call.strings :
          IsSkipped(call.strings[k].source) =>
              /\ \A r \in DOMAIN requests : call.strings[k].key \notin Range(requests[r].keys)
              /\ (Done /\ outcome.kind = "returned") =>
                    /\ Len(outcome.results) >= k
                    /\ IsSkipEcho(outcome.results[k], call.strings[k].source)

\* translate returned the whitespace-only source " " unstripped without
\* calling a provider
C12_Witness ==
    /\ ReturnedSingle
    /\ call.strings[1].source = SrcBlank
    /\ requests = <<>>
    /\ IsSkipEcho(SingleResult, SrcBlank)

\* validate has returned
Validated == fcall # <<>> /\ fcall.fn = "validate" /\ fresult.done

\* the translation has fewer occurrences of some token than the source
DropsToken(source_tokens, translation_tokens) ==
    \E x \in Range(source_tokens) :
        Count(translation_tokens, x) < Count(source_tokens, x)

HasIssue(issues, error_type, severity) ==
    \E k \in DOMAIN issues :
        issues[k].error_type = error_type /\ issues[k].severity = severity

\* C13: whenever the translation drops at least one occurrence of a
\* placeholder token of the source (one of several identical tokens
\* included), validate returns is_valid = False and reports an issue of type
\* missing with severity critical.
C13_PlaceholderCriticality ==
    (Validated /\ DropsToken(fcall.source_tokens, fcall.translation_tokens)) =>
        /\ ~fresult.value.is_valid
        /\ HasIssue(fresult.value.issues, "missing", "critical")

\* the tokens without "$", in order
PlainTokens(tokens) == SelectSeq(tokens, LAMBDA t : "$" \notin Range(t))

\* the two token lists are equal, or hold the same tokens and differ only in
\* where the positional ones stand
SameUpToPositional(source_tokens, translation_tokens) ==
    \/ source_tokens = translation_tokens
    \/ /\ SameMultiset(source_tokens, translation_tokens)
       /\ PlainTokens(source_tokens) = PlainTokens(translation_tokens)

\* C14: validate returns is_valid = True and no issue whenever the
\* translation has the placeholder tokens of the source in the same order
\* (both without any included), or the same tokens with only the positional
\* ones reordered.
C14_PlaceholderSymmetry ==
    (Validated /\ SameUpToPositional(fcall.source_tokens, fcall.translation_tokens)) =>
        /\ fresult.value.is_valid
        /\ fresult.value.issues = <<>>

\* validate accepted "%1$@%d%2$@" translated as "%2$@%d%1$@" without an issue
C14_Witness ==
    /\ Validated
    /\ fcall.source_tokens = << <<"%", "1", "$", "@">>, <<"%", "d">>, <<"%", "2", "$", "@">> >>
    /\ fcall.translation_tokens = << <<"%", "2", "$", "@">>, <<"%", "d">>, <<"%", "1", "$", "@">> >>
    /\ fresult.value.is_valid
    /\ fresult.value.issues = <<>>

\* score has returned
ScoreReturned == fcall # <<>> /\ fcall.fn = "score" /\ fresult.done

\* the category the thresholds give for an overall value in hundredths
CategoryFor(overall) ==
    IF overall >= 9500 THEN "green" ELSE IF overall >= 8000 THEN "yellow" ELSE "red"

\* C15: for every QualityScore that score returns with placeholder_score 100,
\* the category is the one the reported overall value gives (green from 95.0,
\* yellow from 80.0 to 94.99, red up to 79.99), and it is the category the
\* four sub-scores determine.
C15_CategoryBoundaries ==
    (ScoreReturned /\ fresult.value.placeholder_score = 100) =>
        /\ fresult.value.category = CategoryFor(fresult.value.overall)
        /\ LET sum == WeightedSum(fresult.value.placeholder_score,
                                  fresult.value.glossary_score,
                                  fresult.value.length_score,
                                  fresult.value.format_score)
           IN  fresult.value.category = CategoryFor(sum.num \div sum.den)

\* the provider call of translate that raised
RaisedRequests == {r \in DOMAIN requests : requests[r].raised}

\* the name translate gives the provider in its results
ProviderName(prov) == IF prov = "deepl" THEN "deepl" ELSE "gpt4"

\* C16: when a provider call raises inside translate, the result returned has
\* an empty translation, overall and the four sub-scores 0, category red,
\* the exception message as error, and names the provider whose call raised:
\* deepl for the fast-MT call, gpt4 for the LLM call (in the fallback and
\* under force_gpt4).
C16_SingleItemFailureResult ==
    (ReturnedSingle /\ RaisedRequests # {}) =>
        /\ SingleResult.translation = <<>>
        /\ SingleResult.quality_score.overall = 0
        /\ SingleResult.quality_score.placeholder_score = 0
        /\ SingleResult.quality_score.glossary_score = 0
        /\ SingleResult.quality_score.length_score = 0
        /\ SingleResult.quality_score.format_score = 0
        /\ SingleResult.quality_score.category = "red"
        /\ SingleResult.error = ProviderError
        /\ \A r \in RaisedRequests :
              SingleResult.provider = ProviderName(requests[r].provider)

\* the reviewer has returned
ReviewReturned == review_outcome = "returned"

C18_ReviewNeverRaises ==
    /\ review_outcome # "raised"
    /\ Len(review_results) = Len(review_requests)
    /\ \A k \in DOMAIN review_results :
          /\ review_results[k].key = review_call.items[k].key
          /\ FailureSite(review_requests[k]) # "none" =>
                /\ review_results[k].semantic_score = 0
                /\ review_results[k].fluency_score = 0
                /\ review_results[k].issues = <<"Review failed">>
                /\ review_results[k].suggested_fix = NoFix
                /\ ~Passed(review_results[k])
                /\ NeedsAttention(review_results[k])
    /\ ReviewReturned => Len(review_results) = Len(review_call.items)

\* review_batch returned two results: the first for a response that was not
\* JSON, the second for a response that passed
C18_Witness ==
    /\ ReviewReturned
    /\ review_call.op = "review_batch"
    /\ Len(review_results) = 2
    /\ review_requests[1].kind = "not_json"
    /\ review_results[1].issues = <<"Review failed">>
    /\ review_requests[2].kind = "object"
    /\ Passed(review_results[2])

\* OpenAIClient.translate_batch has returned
BatchReturned == fcall # <<>> /\ fcall.fn = "translate_batch" /\ fresult.done

\* the items of the response tagged with the ID n
Tagged(n) == {k \in DOMAIN fcall.parsed : fcall.parsed[k].id.digits = n}

\* C19: OpenAIClient.translate_batch returns as many strings as texts; the
\* i-th is the translation the response tagged with the ID i, wherever that
\* item stands in the response, and the empty string when no item has the
\* ID i; items with other IDs change nothing.
C19_IdBasedReconstruction ==
    BatchReturned =>
        /\ Len(fresult.value) = Len(fcall.texts)
        /\ \A n \in 1..Len(fcall.texts) :
              IF Tagged(n - 1) = {} THEN fresult.value[n] = <<>>
              ELSE \E k \in Tagged(n - 1) : fresult.value[n] = fcall.parsed[k].translation

C21_VariationsPassThrough ==
    service.pc = "select" /\ service.lang_idx > 1 =>
        \A k \in DOMAIN xcstrings : \A lang \in LanguageSet :
            IF lang = Languages[service.lang_idx - 1]
            THEN xcstrings[k].localizations[lang].variations
                     = service.before[k].localizations[lang].variations
            ELSE xcstrings[k].localizations[lang] = service.before[k].localizations[lang]

\* _is_non_translatable has returned
Classified == fcall # <<>> /\ fcall.fn = "is_non_translatable" /\ fresult.done

\* the clauses of the classifier as specified, on a non-empty stripped string
SpecifiedNonTranslatable(stripped) ==
    \/ Len(stripped) = 1 /\ stripped[1] \notin Letters
    \/ Range(stripped) \subseteq Digits \cup {".", ",", "%"}
    \/ stripped[1] = "." /\ Len(stripped) <= 5
    \/ \E prefix \in {"http://", "https://", "www."} : StartsAt(stripped, 1, Chars(prefix))
    \/ "@" \in Range(stripped) /\ "." \in Range(stripped) /\ " " \notin Range(stripped)
    \/ Range(stripped) \subseteq PlaceholderOnlyChars

\* C22: _is_non_translatable returns true for exactly the texts whose
\* stripped form satisfies a clause of the specified classifier; a non-empty
\* stripped string made only of digits, '.', ',' and '%' is non-translatable.
C22_ClassifierExactness ==
    (Classified /\ Strip(fcall.text) # <<>>) =>
        (fresult.value <=> SpecifiedNonTranslatable(Strip(fcall.text)))

\* translate has returned the result of an escalation to the LLM
Escalated ==
    /\ ReturnedSingle
    /\ outcome.results[1].fallback_used
    /\ outcome.results[1].error = NoError

\* C23: when translate escalates from fast-MT to the LLM, the overall score of
\* the result it returns is not lower than the score of the fast-MT translation.
C23_BestResultReturned ==
    Escalated =>
        outcome.results[1].quality_score.overall
            >= Score(call.strings[1].source, requests[1].reply[1]).overall

\* the key lists of the requests made so far to a provider, of one kind
RequestKeys(prov, kind) ==
    LET made == SelectSeq(requests, LAMBDA r : r.provider = prov /\ r.kind = kind)
    IN  [k \in DOMAIN made |-> made[k].keys]

IsPrefix(s, t) == Len(s) <= Len(t) /\ s = SubSeq(t, 1, Len(s))

\* the chunks hold between 1 and size keys and, one after the other, they are
\* the keys of items from the first on, all of them once the call has returned
Partitions(chunks, items, size) ==
    /\ \A k \in DOMAIN chunks : Len(chunks[k]) \in 1..size
    /\ IsPrefix(Flatten(chunks), DictKeys(items))
    /\ ReturnedBatch => Flatten(chunks) = DictKeys(items)

\* C24: in translate_batch the fast-MT chunk requests partition the
\* translatable items into contiguous chunks in input order of at most
\* deepl_batch_size items; the LLM batch requests partition the fallback set
\* into chunks of at most openai_batch_size items; an item is retried
\* individually at most once and only if it is in the fallback set; skipped
\* items appear in no provider request.
C24_ChunkingIsPartition ==
    (IsBatch /\ pc # "start") =>
        /\ Partitions(RequestKeys("deepl", "batch"), Translatable(call.strings),
                      DeeplBatchSize)
        /\ Partitions(RequestKeys("openai", "batch"), fallback_needed, OpenaiBatchSize)
        /\ LET retried == Flatten(RequestKeys("openai", "single"))
           IN  \A k \in DOMAIN retried :
                  /\ Count(retried, retried[k]) = 1
                  /\ HasKey(fallback_needed, retried[k])
        /\ \A r \in DOMAIN requests : \A k \in DOMAIN call.strings :
              IsSkipped(call.strings[k].source) =>
                  call.strings[k].key \notin Range(requests[r].keys)

\* A batch of three translatable items went out in two fast-MT chunks, two
\* items went to the LLM in a batch request that failed and were retried.
C24_Witness ==
    /\ ReturnedBatch
    /\ Len(RequestKeys("deepl", "batch")) = 2
    /\ Len(Flatten(RequestKeys("deepl", "batch"))) = MaxItems
    /\ RequestKeys("openai", "batch") # <<>>
    /\ Len(RequestKeys("openai", "single")) >= 2

LlmRequested == \E r \in DOMAIN requests : requests[r].provider = "openai"

\* every fast-MT chunk was requested before any LLM request, and every
\* fast-MT result was accepted or put into the fallback set
FastMtPhaseOver ==
    /\ \A r \in DOMAIN requests : \A q \in DOMAIN requests :
          (requests[r].provider = "openai" /\ q > r) => requests[q].provider = "openai"
    /\ Flatten(RequestKeys("deepl", "batch")) = DictKeys(translatable)
    /\ \A k \in DOMAIN deepl_results :
          \/ HasKey(results, deepl_results[k].key)
          \/ HasKey(fallback_needed, deepl_results[k].key)

\* request r, an individual retry, follows the failed batch request of its
\* chunk with nothing but retries of that chunk in between
RetryFollowsFailedChunk(r) ==
    \E b \in 1..(r - 1) :
        /\ requests[b].provider = "openai" /\ requests[b].kind = "batch"
        /\ requests[b].raised
        /\ requests[r].keys[1] \in Range(requests[b].keys)
        /\ \A q \in (b + 1)..(r - 1) : requests[q].kind = "single"

\* C25: within one translate_batch call no LLM request is made before the
\* last fast-MT chunk request has returned and every fast-MT result has been
\* scored; the fallback set does not change once the first LLM request was
\* made; an individual retry follows the failed batch request of its chunk
\* and precedes the next LLM chunk.
C25_PhaseOrdering ==
    /\ [](IsBatch /\ LlmRequested =>
            /\ FastMtPhaseOver
            /\ \A r \in DOMAIN requests :
                  (requests[r].provider = "openai" /\ requests[r].kind = "single")
                      => RetryFollowsFailedChunk(r))
    /\ [][IsBatch /\ (LlmRequested \/ LlmRequested') =>
             fallback_needed' = fallback_needed]_vars

\* Three items went to the LLM: the first chunk's batch request failed, its
\* two items were retried, and the second chunk is still to be submitted.
C25_Witness ==
    /\ IsBatch /\ pc = "openai" /\ i > 0
    /\ Len(fallback_needed) = MaxItems
    /\ Len(RequestKeys("deepl", "batch")) = 2
    /\ Len(RequestKeys("openai", "batch")) = 1
    /\ Len(RequestKeys("openai", "single")) = 2

\* the number of returned results of one provider
Tally(prov) == Cardinality({k \in DOMAIN outcome.results : outcome.results[k].provider = prov})

\* C26: after translate_batch has returned, stats.total is the number of input
\* keys and of returned results; deepl_count, gpt4_count and failed_count are
\* the numbers of returned results with provider deepl, gpt4 and error; and
\* total is their sum plus the number of skip results.
C26_StatsAreTallies ==
    ReturnedBatch =>
        /\ outcome.stats.total = Len(call.strings)
        /\ outcome.stats.total = Len(outcome.results)
        /\ outcome.stats.deepl_count = Tally("deepl")
        /\ outcome.stats.gpt4_count = Tally("gpt4")
        /\ outcome.stats.failed_count = Tally("error")
        /\ outcome.stats.total = outcome.stats.deepl_count + outcome.stats.gpt4_count
                                     + outcome.stats.failed_count + Tally("skip")

\* A returned batch with one result of each of deepl, gpt4 and error.
C26_Witness ==
    /\ ReturnedBatch
    /\ outcome.stats.deepl_count = 1
    /\ outcome.stats.gpt4_count = 1
    /\ outcome.stats.failed_count = 1

\* C27: for a translatable source, a result returned by translate or
\* translate_batch has no error only if its translation is non-empty, and has
\* an error only if its translation is empty.
C27_SuccessOrError ==
    (Done /\ outcome.kind = "returned") =>
        \A k \in DOMAIN outcome.results :
            ~IsSkipped(outcome.results[k].source) =>
                (outcome.results[k].error = NoError <=> outcome.results[k].translation # <<>>)

\* C28: whenever validate returns is_valid = True, the placeholders extracted
\* from the translation are those extracted from the source, each with the
\* same multiplicity.
C28_ValidImpliesEqualMultisets ==
    (Validated /\ fresult.value.is_valid) =>
        SameMultiset(ExtractPlaceholders(TextOf(fcall.source_tokens)),
                     ExtractPlaceholders(TextOf(fcall.translation_tokens)))

\* C29: every translation that the write-back stored in the file with state
\* translated has placeholder sub-score 100 against its source; a translation
\* with a critical placeholder issue is never stored.
C29_BrokenNeverPersisted ==
    \A k \in DOMAIN xcstrings : \A lang \in LanguageSet :
        (/\ xcstrings[k].localizations[lang].string_unit.set
         /\ xcstrings[k].localizations[lang].string_unit.state = "translated") =>
            ScorePlaceholders(xcstrings[k].source,
                              xcstrings[k].localizations[lang].string_unit.value).score = 100

\* the terminal events a client has received
Terminals(c) ==
    Cardinality({k \in DOMAIN clients[c].received :
                    clients[c].received[k] \in {"complete", "error"}})

\* C30: every client that opens the job's stream eventually has received
\* exactly one terminal complete or error event and its stream has ended.
C30_EveryStreamEnds ==
    \A c \in Clients :
        (clients[c].pc # "idle") ~> (clients[c].pc = "ended" /\ Terminals(c) = 1)

====
